---- MODULE Spec2Model ----
(***************************************************************************)
(* Healthcare lead agent: the phase pipeline (enrichment, persistence,     *)
(* provisioning cascade) of src/unnamed/part_000 (fault-tolerant variant)  *)
(* and src/autonomous-agent.js (3-step variant).                           *)
(*                                                                         *)
(* JavaScript strings are sequences of one-character strings.  An object   *)
(* is a record; a property the object does not have is a field the record  *)
(* does not have (Has).  The properties the code tests with Array.isArray  *)
(* (services, treatments, specializations) hold a tagged value: Arr(items) *)
(* or Str(chars).                                                          *)
(***************************************************************************)
EXTENDS Integers, Sequences, FiniteSets, TLC

\* ------------------------------------------------------------------------
\* Bounds of the model
\* ------------------------------------------------------------------------
\* the wall clock advances at most this many milliseconds during a run
MaxClock == 1
\* last six digits of Date.now() when the process starts
ClockBase == 998
\* number of processHealthcarePractice calls made during a run
MaxCalls == 1

\* ------------------------------------------------------------------------
\* Strings
\* ------------------------------------------------------------------------
LowerAlpha == <<"a","b","c","d","e","f","g","h","i","j","k","l","m","n","o","p","q","r","s","t","u","v","w","x","y","z">>
UpperAlpha == <<"A","B","C","D","E","F","G","H","I","J","K","L","M","N","O","P","Q","R","S","T","U","V","W","X","Y","Z">>
DigitChars == <<"0","1","2","3","4","5","6","7","8","9">>

Range(s) == {s[i] : i \in DOMAIN s}
LowerSet == Range(LowerAlpha)
UpperSet == Range(UpperAlpha)
DigitSet == Range(DigitChars)
\* \s of the regular expressions, as far as the model's characters go
SpaceSet == {" ", "\t", "\n", "\r"}

IndexIn(alpha, c) == CHOOSE i \in DOMAIN alpha : alpha[i] = c
toUpperCaseChar(c) == IF c \in LowerSet THEN UpperAlpha[IndexIn(LowerAlpha, c)] ELSE c
toLowerCaseChar(c) == IF c \in UpperSet THEN LowerAlpha[IndexIn(UpperAlpha, c)] ELSE c
toLowerCase(s) == [i \in DOMAIN s |-> toLowerCaseChar(s[i])]

\* s.substring(from, to) with 0-based from, exclusive to
substring(s, from, to) ==
    LET hi == IF to > Len(s) THEN Len(s) ELSE to
    IN  IF from >= hi THEN <<>> ELSE SubSeq(s, from + 1, hi)
\* s.slice(from)
sliceFrom(s, from) == substring(s, from, Len(s))

StartsWith(s, p) == Len(s) >= Len(p) /\ SubSeq(s, 1, Len(p)) = p
EndsWith(s, p) == Len(s) >= Len(p) /\ SubSeq(s, Len(s) - Len(p) + 1, Len(s)) = p

\* s.replace(/[^...]/g, ''): keep the characters of s that are in keep
RECURSIVE KeepChars(_, _)
KeepChars(s, keep) ==
    IF s = <<>> THEN <<>>
    ELSE IF Head(s) \in keep THEN <<Head(s)>> \o KeepChars(Tail(s), keep)
    ELSE KeepChars(Tail(s), keep)

\* s.replace(/\s+/g, '-'): every maximal run of whitespace becomes one hyphen
RECURSIVE CollapseSpaces(_, _)
CollapseSpaces(s, inRun) ==
    IF s = <<>> THEN <<>>
    ELSE IF Head(s) \in SpaceSet
         THEN (IF inRun THEN <<>> ELSE <<"-">>) \o CollapseSpaces(Tail(s), TRUE)
         ELSE <<Head(s)>> \o CollapseSpaces(Tail(s), FALSE)

\* s.split(/[seps]/): the parts between separators, empty parts included
RECURSIVE SplitOn(_, _, _)
SplitOn(s, seps, cur) ==
    IF s = <<>> THEN <<cur>>
    ELSE IF Head(s) \in seps THEN <<cur>> \o SplitOn(Tail(s), seps, <<>>)
    ELSE SplitOn(Tail(s), seps, Append(cur, Head(s)))

\* parts.join(sep)
RECURSIVE Join(_, _)
Join(parts, sep) ==
    IF parts = <<>> THEN <<>>
    ELSE IF Len(parts) = 1 THEN parts[1]
    ELSE parts[1] \o sep \o Join(Tail(parts), sep)

\* parts.filter(pred) for pred = "has more than n characters"
RECURSIVE FilterLonger(_, _)
FilterLonger(parts, n) ==
    IF parts = <<>> THEN <<>>
    ELSE IF Len(Head(parts)) > n THEN <<Head(parts)>> \o FilterLonger(Tail(parts), n)
    ELSE FilterLonger(Tail(parts), n)

\* s.includes(sub)
includes(s, sub) ==
    \E i \in 0..Len(s) : i + Len(sub) <= Len(s) /\ SubSeq(s, i + 1, i + Len(sub)) = sub

\* s.trim()
RECURSIVE TrimLeft(_)
TrimLeft(s) == IF s # <<>> /\ Head(s) \in SpaceSet THEN TrimLeft(Tail(s)) ELSE s
RECURSIVE TrimRight(_)
TrimRight(s) ==
    IF s # <<>> /\ s[Len(s)] \in SpaceSet THEN TrimRight(SubSeq(s, 1, Len(s) - 1)) ELSE s
trim(s) == TrimRight(TrimLeft(s))

\* objects
Has(r, f) == f \in DOMAIN r
\* a boolean property that is set and true
Flag(r, f) == Has(r, f) /\ r[f]
\* null or undefined where an object is expected
NoValue == [none |-> TRUE]
\* tagged values of the properties tested with Array.isArray
Arr(items) == [array |-> TRUE, items |-> items]
Str(chars) == [array |-> FALSE, chars |-> chars]

\* ------------------------------------------------------------------------
\* String literals of the source, and the sample inputs
\* ------------------------------------------------------------------------
Lit_Healthcare_suffix == <<" ","H","e","a","l","t","h","c","a","r","e">>
Lit_www == <<"w","w","w",".">>
Lit_https == <<"h","t","t","p","s",":","/","/">>
Lit_http == <<"h","t","t","p",":","/","/">>
Lit_PracticeLocation == <<"P","r","a","c","t","i","c","e"," ","L","o","c","a","t","i","o","n">>
Lit_HealthcareServices == <<"H","e","a","l","t","h","c","a","r","e"," ","S","e","r","v","i","c","e","s">>
Lit_Consultation == <<"C","o","n","s","u","l","t","a","t","i","o","n">>
Lit_GeneralHealthcare == <<"G","e","n","e","r","a","l"," ","H","e","a","l","t","h","c","a","r","e">>
Lit_Healthcare == <<"H","e","a","l","t","h","c","a","r","e">>
Lit_general_healthcare == <<"g","e","n","e","r","a","l","-","h","e","a","l","t","h","c","a","r","e">>
Lit_healthcare == <<"h","e","a","l","t","h","c","a","r","e">>
Lit_healthcare_basic == <<"h","e","a","l","t","h","c","a","r","e","-","b","a","s","i","c">>
Lit_HealthcarePractice == <<"H","e","a","l","t","h","c","a","r","e"," ","P","r","a","c","t","i","c","e">>
Lit_HealthcareLocation == <<"H","e","a","l","t","h","c","a","r","e"," ","L","o","c","a","t","i","o","n">>
Lit_LeadCaptured == <<"L","e","a","d"," ","C","a","p","t","u","r","e","d">>
Lit_FallbackRecord == <<"F","a","l","l","b","a","c","k"," ","R","e","c","o","r","d">>
Lit_EmergencyFallback == <<"E","m","e","r","g","e","n","c","y"," ","F","a","l","l","b","a","c","k">>
Lit_DrSmith == <<"D","r","."," ","S","m","i","t","h">>
Lit_DrHealthcare == <<"D","r","."," ","H","e","a","l","t","h","c","a","r","e">>
Lit_notion_ == <<"n","o","t","i","o","n","_">>
Lit_fallback_ == <<"f","a","l","l","b","a","c","k","_">>
Lit_emergency_ == <<"e","m","e","r","g","e","n","c","y","_">>
Lit_practice_ == <<"p","r","a","c","t","i","c","e","_">>
Lit_fallback_dash == <<"f","a","l","l","b","a","c","k","-">>
Lit_demo_suffix == <<"-","d","e","m","o">>
Lit_emergency_infix == <<"-","e","m","e","r","g","e","n","c","y","-">>
Lit_mock_demo == <<".","m","o","c","k",".","d","e","m","o">>
Lit_AgentsdemoUrl == <<"h","t","t","p","s",":","/","/","g","i","t","h","u","b",".","c","o","m","/","j","o","m","a","r","c","e","l","l","o","/","A","g","e","n","t","s","d","e","m","o">>
Lit_githubRepoBase == <<"h","t","t","p","s",":","/","/","g","i","t","h","u","b",".","c","o","m","/","j","o","m","a","r","c","e","l","l","o","/">>
Lit_NA == <<"N","/","A"," ","-"," ","D","e","p","l","o","y","m","e","n","t"," ","F","a","i","l","e","d">>
Lit_comma == <<","," ">>
Lit_dental == <<"d","e","n","t","a","l">>
Lit_cosmetic == <<"c","o","s","m","e","t","i","c">>
DateNowHigh == <<"1","7","6","2","1","2","8">>
TLDs == {<<".","c","o","m">>, <<".","o","r","g">>, <<".","n","e","t">>, <<".","c","o",".","u","k">>, <<".","n","l">>, <<".","d","e">>, <<".","f","r">>}
locationHints == <<<<"l","o","n","d","o","n">>,
    <<"n","e","w","y","o","r","k">>,
    <<"s","y","d","n","e","y">>,
    <<"t","o","r","o","n","t","o">>,
    <<"v","a","n","c","o","u","v","e","r">>,
    <<"m","e","l","b","o","u","r","n","e">>,
    <<"a","m","s","t","e","r","d","a","m">>,
    <<"b","e","r","l","i","n">>,
    <<"p","a","r","i","s">>>>
Url_drsmith == <<"h","t","t","p","s",":","/","/","d","r","s","m","i","t","h","-","d","e","n","t","a","l",".","e","x","a","m","p","l","e",".","c","o","m">>
Url_london == <<"h","t","t","p","s",":","/","/","w","w","w",".","l","o","n","d","o","n","-","s","k","i","n",".","c","o",".","u","k","/">>
Url_ab == <<"h","t","t","p",":","/","/","a","b",".","n","l">>
Url_clinic == <<"h","t","t","p","s",":","/","/","M","y","_","C","l","i","n","i","c","1",".","o","r","g","/","a","b","o","u","t">>
Url_noscheme == <<"d","r","s","m","i","t","h","-","d","e","n","t","a","l",".","c","o","m">>
Svc_0 == <<"l","a","s","e","r"," ","t","h","e","r","a","p","y"," ","0">>
Svc_1 == <<"l","a","s","e","r"," ","t","h","e","r","a","p","y"," ","1">>
Svc_2 == <<"l","a","s","e","r"," ","t","h","e","r","a","p","y"," ","2">>
Svc_3 == <<"l","a","s","e","r"," ","t","h","e","r","a","p","y"," ","3">>
Svc_4 == <<"l","a","s","e","r"," ","t","h","e","r","a","p","y"," ","4">>
Svc_5 == <<"l","a","s","e","r"," ","t","h","e","r","a","p","y"," ","5">>
Svc_6 == <<"l","a","s","e","r"," ","t","h","e","r","a","p","y"," ","6">>
Svc_7 == <<"l","a","s","e","r"," ","t","h","e","r","a","p","y"," ","7">>
Svc_8 == <<"l","a","s","e","r"," ","t","h","e","r","a","p","y"," ","8">>
Svc_9 == <<"l","a","s","e","r"," ","t","h","e","r","a","p","y"," ","9">>
TreatmentNames == <<<<"b","o","t","o","x">>,
    <<"d","e","r","m","a","l"," ","f","i","l","l","e","r","s">>,
    <<"l","a","s","e","r"," ","t","h","e","r","a","p","y">>,
    <<"c","h","e","m","i","c","a","l"," ","p","e","e","l","s">>,
    <<"m","i","c","r","o","n","e","e","d","l","i","n","g">>,
    <<"c","o","o","l","s","c","u","l","p","t","i","n","g">>,
    <<"f","a","c","e","l","i","f","t">>,
    <<"r","h","i","n","o","p","l","a","s","t","y">>,
    <<"l","i","p","o","s","u","c","t","i","o","n">>,
    <<"t","u","m","m","y"," ","t","u","c","k">>,
    <<"d","e","n","t","a","l"," ","i","m","p","l","a","n","t","s">>,
    <<"t","e","e","t","h"," ","w","h","i","t","e","n","i","n","g">>,
    <<"o","r","t","h","o","d","o","n","t","i","c","s">>,
    <<"r","o","o","t"," ","c","a","n","a","l">>,
    <<"c","r","o","w","n">>>>
Spec_cosmetic == <<"c","o","s","m","e","t","i","c"," ","s","u","r","g","e","r","y">>
Phone_rich == <<"+","1","5","5","5","1","2","3","4","5","6","7">>
Email_rich == <<"i","n","f","o","@","c","l","i","n","i","c",".","o","r","g">>
Loc_rich == <<"l","o","c","a","t","e","d"," ","i","n","\t","1","2"," ","M","a","i","n"," ","S","t","r","e","e","t">>


\* ------------------------------------------------------------------------
\* Time, exceptions, URL parsing
\* ------------------------------------------------------------------------
\* Date.now() at model time t: a 13-digit number whose last six digits are
\* Low6(t); the first seven do not change during a run
Low6(t) == (ClockBase + t) % 1000000
Pad6(n) == [i \in 1..6 |-> DigitChars[((n \div (10 ^ (6 - i))) % 10) + 1]]
DateNowString(t) == DateNowHigh \o Pad6(Low6(t))
\* s.slice(-n)
sliceLast(s, n) == IF Len(s) <= n THEN s ELSE SubSeq(s, Len(s) - n + 1, Len(s))

\* the outcome of a call: a returned value or a thrown Error (message: a tag)
Return(v) == [threw |-> FALSE, value |-> v]
Throw(msg) == [threw |-> TRUE, error |-> msg]

\* new URL(url): the model's URLs parse when they have an http(s) scheme and a
\* non-empty host; the hostname is the host in lower case
SchemeOf(url) ==
    IF StartsWith(url, Lit_https) THEN Lit_https
    ELSE IF StartsWith(url, Lit_http) THEN Lit_http
    ELSE <<>>
HostPart(url) == SplitOn(sliceFrom(url, Len(SchemeOf(url))), {"/"}, <<>>)[1]
URLParses(url) == SchemeOf(url) # <<>> /\ HostPart(url) # <<>>
URLHostname(url) == toLowerCase(HostPart(url))

\* s.replace(sub, ''): the first occurrence only
RECURSIVE RemoveFirst(_, _)
RemoveFirst(s, sub) ==
    IF Len(s) < Len(sub) THEN s
    ELSE IF StartsWith(s, sub) THEN sliceFrom(s, Len(sub))
    ELSE <<Head(s)>> \o RemoveFirst(Tail(s), sub)

\* a || b on strings
OrStr(a, b) == IF a # <<>> THEN a ELSE b

\* ------------------------------------------------------------------------
\* Enrichment: scrapeHealthcarePractice and what it calls
\* ------------------------------------------------------------------------
capitalize(part) ==
    IF part = <<>> THEN <<>> ELSE <<toUpperCaseChar(part[1])>> \o Tail(part)

extractCompanyFromUrl(hostname) ==
    LET noWww == IF StartsWith(hostname, Lit_www) THEN sliceFrom(hostname, 4) ELSE hostname
        tld == {t \in TLDs : EndsWith(noWww, t)}
        name == IF tld = {} THEN noWww
                ELSE LET t == CHOOSE x \in tld : \A y \in tld : Len(x) >= Len(y)
                     IN  substring(noWww, 0, Len(noWww) - Len(t))
        parts == SplitOn(name, {".", "-"}, <<>>)
        meaningful == FilterLonger(parts, 2)
    IN  Join([i \in DOMAIN meaningful |-> capitalize(meaningful[i])], <<" ">>)
            \o Lit_Healthcare_suffix

RECURSIVE FirstHint(_, _)
FirstHint(domain, hints) ==
    IF hints = <<>> THEN <<>>
    ELSE IF includes(domain, Head(hints)) THEN Head(hints)
    ELSE FirstHint(domain, Tail(hints))

extractLocationFromUrl(hostname) ==
    LET hit == FirstHint(toLowerCase(hostname), locationHints)
    IN  IF hit # <<>> THEN capitalize(hit) ELSE Lit_PracticeLocation

SlugMax == 30
SuffixDigits == 6

\* mutant: the slug is not cut to SlugMax characters
generatePracticeId_noTruncate(companyName, t) ==
    CollapseSpaces(
        KeepChars(toLowerCase(companyName),
                  LowerSet \cup UpperSet \cup DigitSet \cup SpaceSet),
        FALSE)
    \o <<"-">> \o sliceLast(DateNowString(t), SuffixDigits)

generatePracticeId(companyName, t) ==
    substring(
        CollapseSpaces(
            KeepChars(toLowerCase(companyName),
                      LowerSet \cup UpperSet \cup DigitSet \cup SpaceSet),
            FALSE),
        0, SlugMax)
    \o <<"-">> \o sliceLast(DateNowString(t), SuffixDigits)

Min(a, b) == IF a < b THEN a ELSE b
Max(a, b) == IF a > b THEN a ELSE b

\* mutant: the final Math.min(score, 100) is missing
calculateLeadScore_noCap(exaData) ==
    50
    + (IF Len(exaData.services.items) > 0
       THEN Min(Len(exaData.services.items) * 5, 25) ELSE 0)
    + (IF Len(exaData.treatments.items) > 0
       THEN Min(Len(exaData.treatments.items) * 3, 20) ELSE 0)
    + (IF exaData.phone # <<>> THEN 10 ELSE 0)
    + (IF exaData.email # <<>> THEN 10 ELSE 0)
    + (IF exaData.location # <<>> THEN 5 ELSE 0)
    + (IF Len(exaData.specializations.items) > 0 THEN 5 ELSE 0)
    + (IF exaData.content_analyzed > 1000 THEN 5 ELSE 0)

calculateLeadScore(exaData) ==
    LET base == 50
        s1 == IF Has(exaData, "services") /\ Len(exaData.services.items) > 0
              THEN Min(Len(exaData.services.items) * 5, 25) ELSE 0
        s2 == IF Has(exaData, "treatments") /\ Len(exaData.treatments.items) > 0
              THEN Min(Len(exaData.treatments.items) * 3, 20) ELSE 0
        s3 == IF Has(exaData, "phone") /\ exaData.phone # <<>> THEN 10 ELSE 0
        s4 == IF Has(exaData, "email") /\ exaData.email # <<>> THEN 10 ELSE 0
        s5 == IF Has(exaData, "location") /\ exaData.location # <<>> THEN 5 ELSE 0
        s6 == IF Has(exaData, "specializations") /\ Len(exaData.specializations.items) > 0
              THEN 5 ELSE 0
        s7 == IF Has(exaData, "content_analyzed") /\ exaData.content_analyzed > 1000
              THEN 5 ELSE 0
    IN  Min(base + s1 + s2 + s3 + s4 + s5 + s6 + s7, 100)

\* mutant: the baseline record carries no default services and treatments
basicContentAnalysis_noDefaults(url) ==
    LET hostname == URLHostname(url)
    IN  [company |-> extractCompanyFromUrl(hostname),
         phone |-> <<>>,
         email |-> <<>>,
         location |-> extractLocationFromUrl(hostname),
         services |-> Arr(<<>>),
         treatments |-> Arr(<<>>),
         specializations |-> Arr(<<Lit_GeneralHealthcare>>),
         practice_type |-> Lit_general_healthcare]

basicContentAnalysis(url) ==
    LET hostname == URLHostname(url)
    IN  [company |-> extractCompanyFromUrl(hostname),
         phone |-> <<>>,
         email |-> <<>>,
         location |-> extractLocationFromUrl(hostname),
         services |-> Arr(<<Lit_HealthcareServices>>),
         treatments |-> Arr(<<Lit_Consultation>>),
         specializations |-> Arr(<<Lit_GeneralHealthcare>>),
         practice_type |-> Lit_general_healthcare]

\* The text classifier (extractServices, extractTreatments, extractSpecializations,
\* extractContactInfo, extractLocationFromContent, determinePracticeType) is a
\* capability outside the pipeline: a content is given by what the classifier
\* finds in it.  location = <<>> stands for "no location found" (null).
extractHealthcareData(content, url, companyName) ==
    [company |-> companyName,
     phone |-> content.phone,
     email |-> content.email,
     location |-> OrStr(content.location, extractLocationFromUrl(URLHostname(url))),
     services |-> Arr(content.services),
     treatments |-> Arr(content.treatments),
     specializations |-> Arr(content.specializations),
     practice_type |-> content.practice_type,
     content_analyzed |-> content.length]

\* contents the search service can return
ContentPoor ==
    [services |-> <<>>, treatments |-> <<>>, specializations |-> <<>>,
     phone |-> <<>>, email |-> <<>>, location |-> <<>>,
     practice_type |-> Lit_general_healthcare, length |-> 0]
ContentRich ==
    [services |-> <<Svc_0, Svc_1, Svc_2>>,
     treatments |-> SubSeq(TreatmentNames, 1, 2),
     specializations |-> <<Spec_cosmetic>>,
     phone |-> Phone_rich, email |-> Email_rich, location |-> Loc_rich,
     practice_type |-> Lit_cosmetic, length |-> 1500]
ContentFull ==
    [services |-> <<Svc_0, Svc_1, Svc_2, Svc_3, Svc_4, Svc_5, Svc_6, Svc_7, Svc_8, Svc_9>>,
     treatments |-> TreatmentNames,
     specializations |-> <<Spec_cosmetic>>,
     phone |-> Phone_rich, email |-> <<>>, location |-> <<>>,
     practice_type |-> Lit_dental, length |-> 4000]
Contents == {ContentPoor, ContentRich, ContentFull}

\* what the search call (axios.post to the search service) can do
SearchResponses ==
    {[kind |-> "error"], [kind |-> "empty"]}
        \cup {[kind |-> "results", content |-> c] : c \in Contents}

searchWithExa(url, companyName, exa_api_key, resp) ==
    IF ~exa_api_key THEN basicContentAnalysis(url)
    ELSE IF resp.kind = "error" THEN basicContentAnalysis(url)
    ELSE IF resp.kind = "empty" THEN basicContentAnalysis(url)
    ELSE extractHealthcareData(resp.content, url, companyName)

\* the try block of scrapeHealthcarePractice
scrapeTry(url, exa_api_key, resp, t) ==
    IF ~URLParses(url) THEN Throw("Invalid URL")
    ELSE
      LET hostname == URLHostname(url)
          companyName == extractCompanyFromUrl(hostname)
          exaData == searchWithExa(url, companyName, exa_api_key, resp)
          company == OrStr(exaData.company, companyName)
      IN  Return(
            [company |-> company,
             phone |-> OrStr(exaData.phone, <<>>),
             email |-> OrStr(exaData.email, <<>>),
             location |-> OrStr(exaData.location, extractLocationFromUrl(hostname)),
             services |-> exaData.services,
             treatments |-> exaData.treatments,
             specializations |-> exaData.specializations,
             url |-> url,
             domain |-> hostname,
             scraped_at |-> t,
             practice_type |-> OrStr(exaData.practice_type, Lit_healthcare),
             lead_score |-> calculateLeadScore(exaData),
             exa_enhanced |-> TRUE,
             practiceId |-> generatePracticeId(company, t)])

\* mutant: the catch block builds its record from the raw string, without new URL
scrapeCatch_noParse(url, error, t) ==
    Return(
      [company |-> extractCompanyFromUrl(toLowerCase(url)),
       phone |-> <<>>,
       email |-> <<>>,
       location |-> extractLocationFromUrl(toLowerCase(url)),
       services |-> Arr(<<Lit_GeneralHealthcare>>),
       treatments |-> Arr(<<Lit_Consultation>>),
       specializations |-> Arr(<<Lit_Healthcare>>),
       url |-> url,
       domain |-> toLowerCase(url),
       practiceId |-> substring(KeepChars(url, LowerSet \cup UpperSet \cup DigitSet), 0, 20),
       scraped_at |-> t,
       practice_type |-> Lit_healthcare_basic,
       lead_score |-> 30,
       exa_enhanced |-> FALSE,
       error |-> error])

\* the catch block of scrapeHealthcarePractice
scrapeCatch(url, error, t) ==
    IF ~URLParses(url) THEN Throw("Invalid URL")
    ELSE
      LET hostname == URLHostname(url)
          noScheme == sliceFrom(url, Len(SchemeOf(url)))
          fallbackId == substring(
                          KeepChars(noScheme, LowerSet \cup UpperSet \cup DigitSet), 0, 20)
      IN  Return(
            [company |-> extractCompanyFromUrl(hostname),
             phone |-> <<>>,
             email |-> <<>>,
             location |-> extractLocationFromUrl(hostname),
             services |-> Arr(<<Lit_GeneralHealthcare>>),
             treatments |-> Arr(<<Lit_Consultation>>),
             specializations |-> Arr(<<Lit_Healthcare>>),
             url |-> url,
             domain |-> hostname,
             practiceId |-> fallbackId,
             scraped_at |-> t,
             practice_type |-> Lit_healthcare_basic,
             lead_score |-> 30,
             exa_enhanced |-> FALSE,
             error |-> error])

scrapeHealthcarePractice(url, exa_api_key, resp, t) ==
    LET main == scrapeTry(url, exa_api_key, resp, t)
    IN  IF main.threw THEN scrapeCatch(url, main.error, t) ELSE main

createMinimalFallbackData(url, t) ==
    IF ~URLParses(url) THEN Throw("Invalid URL")
    ELSE
      LET hostname == RemoveFirst(URLHostname(url), Lit_www)
          first == SplitOn(hostname, {"."}, <<>>)[1]
      IN  Return(
            [company |-> capitalize(first) \o Lit_Healthcare_suffix,
             doctor |-> Lit_DrHealthcare,
             phone |-> <<>>,
             email |-> <<>>,
             location |-> Lit_HealthcareLocation,
             services |-> Arr(<<Lit_GeneralHealthcare>>),
             url |-> url,
             practiceId |-> Lit_fallback_dash
                              \o KeepChars(hostname, LowerSet \cup UpperSet \cup DigitSet)
                              \o <<"-">> \o sliceLast(DateNowString(t), SuffixDigits),
             scraped_at |-> t,
             practice_type |-> Lit_healthcare,
             lead_score |-> 30])


\* ------------------------------------------------------------------------
\* Persistence: storeLeadInNotion and what it calls
\* ------------------------------------------------------------------------
\* characters of \x20-\x7E that the model's strings use
PrintableSet ==
    LowerSet \cup UpperSet \cup DigitSet
        \cup {" ", ".", "-", "_", "/", ":", "@", "+", ",", "(", ")"}
FieldMax == 2000
ListMax == 1000
SpecializationsMax == 500
PhoneMin == 10

\* r.f of a string property, '' when the object has none (each user tests !value)
GetStr(r, f) == IF Has(r, f) THEN r[f] ELSE <<>>

\* mutant: sanitize without its trim()
sanitize_noTrim(str) ==
    IF str = <<>> THEN <<>>
    ELSE
      LET spaced == [i \in DOMAIN str |->
                        IF str[i] \in {"\n", "\r", "\t"} THEN " " ELSE str[i]]
      IN  substring(KeepChars(spaced, PrintableSet), 0, FieldMax)

sanitize(str) ==
    IF str = <<>> THEN <<>>
    ELSE
      LET spaced == [i \in DOMAIN str |->
                        IF str[i] \in {"\n", "\r", "\t"} THEN " " ELSE str[i]]
      IN  substring(trim(KeepChars(spaced, PrintableSet)), 0, FieldMax)

\* /^[^\s@]+@[^\s@]+\.[^\s@]+$/.test(email)
emailRegexTest(email) ==
    /\ \A i \in DOMAIN email : email[i] \notin SpaceSet
    /\ Cardinality({i \in DOMAIN email : email[i] = "@"}) = 1
    /\ LET at == CHOOSE i \in DOMAIN email : email[i] = "@"
       IN  /\ at > 1
           /\ \E d \in (at + 2)..(Len(email) - 1) : email[d] = "."

validateEmail(email) ==
    IF email = <<>> THEN <<>>
    ELSE IF emailRegexTest(email) THEN email ELSE <<>>

validatePhone(phone) ==
    IF phone = <<>> THEN <<>>
    ELSE
      LET cleanPhone == KeepChars(phone, DigitSet \cup SpaceSet \cup {"+", "(", ")", "-"})
      IN  IF Len(cleanPhone) >= PhoneMin THEN cleanPhone ELSE <<>>

validateUrl(url) ==
    IF url = <<>> THEN <<>>
    ELSE IF URLParses(url) THEN url
    ELSE Lit_https \o sliceFrom(url, Len(SchemeOf(url)))

\* array.map(sanitize)
sanitizeAll(items) == [i \in DOMAIN items |-> sanitize(items[i])]

\* the three list properties of validateNotionData
joinedList(r, f, max, default) ==
    IF Has(r, f) /\ r[f].array
    THEN Str(substring(Join(sanitizeAll(r[f].items), Lit_comma), 0, max))
    ELSE Str(default)

\* Math.min(Math.max(parseInt(lead_score) || 50, 0), 100)
clampScore(r) ==
    LET parsed == IF Has(r, "lead_score") /\ r.lead_score # 0 THEN r.lead_score ELSE 50
    IN  Min(Max(parsed, 0), 100)

\* Every string property of the records the pipeline builds is a string, so
\* none of the validators raises; the outcome keeps the shape of a call that
\* storeLeadInNotion wraps in try/catch.
validateNotionData(practiceData, t) ==
    Return(
      [company |-> OrStr(sanitize(GetStr(practiceData, "company")), Lit_HealthcarePractice),
       phone |-> validatePhone(GetStr(practiceData, "phone")),
       email |-> validateEmail(GetStr(practiceData, "email")),
       location |-> OrStr(sanitize(GetStr(practiceData, "location")), Lit_HealthcareLocation),
       website |-> validateUrl(GetStr(practiceData, "url")),
       practice_id |-> sanitize(GetStr(practiceData, "practiceId")),
       status |-> Lit_LeadCaptured,
       practice_type |-> OrStr(sanitize(GetStr(practiceData, "practice_type")), Lit_healthcare),
       services |-> joinedList(practiceData, "services", ListMax, Lit_HealthcareServices),
       treatments |-> joinedList(practiceData, "treatments", ListMax, Lit_Consultation),
       specializations |-> joinedList(practiceData, "specializations",
                                      SpecializationsMax, Lit_GeneralHealthcare),
       lead_score |-> clampScore(practiceData),
       exa_enhanced |-> IF Has(practiceData, "exa_enhanced")
                        THEN practiceData.exa_enhanced ELSE FALSE,
       domain |-> sanitize(GetStr(practiceData, "domain")),
       scraped_at |-> IF Has(practiceData, "scraped_at") THEN practiceData.scraped_at ELSE t,
       last_updated |-> t])

\* Math.random().toString(36).substring(7): a few characters, possibly none
RandomSuffixes == {<<>>, <<"k","3","x">>}

\* the store call: the mock's timer fires at time t; storeOk is Math.random() > 0.3
attemptNotionStorage(validatedData, storeOk, t, rnd) ==
    IF storeOk
    THEN [success |-> TRUE,
          leadId |-> Lit_notion_ \o DateNowString(t) \o <<"_">> \o rnd,
          record |-> validatedData]
    ELSE [success |-> FALSE, error |-> "Notion API rate limit exceeded"]

createFallbackNotionRecord(practiceData, t, rnd) ==
    LET fallbackRecord ==
          [company |-> OrStr(GetStr(practiceData, "company"), Lit_HealthcarePractice),
           doctor |-> OrStr(GetStr(practiceData, "doctor"), Lit_DrSmith),
           phone |-> GetStr(practiceData, "phone"),
           email |-> GetStr(practiceData, "email"),
           location |-> OrStr(GetStr(practiceData, "location"), Lit_HealthcareLocation),
           website |-> GetStr(practiceData, "url"),
           practice_id |-> OrStr(GetStr(practiceData, "practiceId"),
                                 Lit_practice_ \o DateNowString(t)),
           status |-> Lit_FallbackRecord,
           services |-> IF Has(practiceData, "services") /\ practiceData.services.array
                        THEN Str(Join(practiceData.services.items, Lit_comma))
                        ELSE Str(Lit_HealthcareServices),
           created_at |-> t]
    IN  [success |-> TRUE,
         leadId |-> Lit_fallback_ \o DateNowString(t) \o <<"_">> \o rnd,
         record |-> fallbackRecord,
         is_fallback |-> TRUE]

\* mutant: a failed store call is raised to the caller instead of replaced
storeLeadInNotion_rethrows(practiceData, storeOk, t0, t1, rnd) ==
    LET validated == validateNotionData(practiceData, t0)
        notionResult == attemptNotionStorage(validated.value, storeOk, t1, rnd)
    IN  IF notionResult.success THEN Return(notionResult)
        ELSE Throw(notionResult.error)

\* storeLeadInNotion: validation at the time of the call (t0), the store's
\* answer and what follows it at t1
storeLeadInNotion(practiceData, storeOk, t0, t1, rnd) ==
    LET validated == validateNotionData(practiceData, t0)
    IN  IF validated.threw
        THEN Return(createFallbackNotionRecord(practiceData, t0, rnd))
        ELSE
          LET notionResult == attemptNotionStorage(validated.value, storeOk, t1, rnd)
          IN  IF notionResult.success
              THEN Return(notionResult)
              ELSE Return(createFallbackNotionRecord(validated.value, t1, rnd))


\* ------------------------------------------------------------------------
\* Provisioning: the strategies of createPersonalizedRepository
\* ------------------------------------------------------------------------
\* mutant: the constructor connects a hosting client
railwayMCP_connected == "connected"

\* this.railwayMCP: the constructor does not set it and nothing assigns it
railwayMCP == "undefined"

\* what the source-control calls of createGitHubRepository can do ("failed": the
\* API answers without a clone_url, or curl or git exits with an error)
GithubOutcomes == {"created", "failed"}
\* what a hosting client, if there were one, could answer
RailwayOutcomes == {"deployed", "failed"}

createGitHubRepository(practiceData, repoName, gh) ==
    IF gh = "created"
    THEN [success |-> TRUE,
          repo_name |-> repoName,
          repo_url |-> Lit_githubRepoBase \o repoName,
          clone_url |-> Lit_githubRepoBase \o repoName \o <<".","g","i","t">>]
    ELSE [success |-> FALSE, error |-> "GitHub repository creation failed"]

Lit_railway_suffix == <<"-","s","e","r","v","i","c","e","-","p","r","o","d","u","c","t","i","o","n",".","u","p",".","r","a","i","l","w","a","y",".","a","p","p">>
Lit_direct_suffix == <<"-","d","i","r","e","c","t","-","p","r","o","d","u","c","t","i","o","n",".","u","p",".","r","a","i","l","w","a","y",".","a","p","p">>

deployToRailwayViaMCP(practiceData, repoName, rw) ==
    IF railwayMCP = "undefined"
    THEN Throw("Railway MCP deployment failed: Cannot read properties of undefined")
    ELSE IF rw = "failed"
    THEN Throw("Railway MCP deployment failed: Failed to create Railway project")
    ELSE Return([project_id |-> "project", service_id |-> "service",
                 domain_url |-> Lit_https \o practiceData.practiceId \o Lit_railway_suffix])

createDirectRailwayService(practiceData, rw) ==
    IF railwayMCP = "undefined"
    THEN Throw("Cannot read properties of undefined")
    ELSE IF rw # "deployed"
    THEN Throw("request failed")
    ELSE Return([project_id |-> "project", service_id |-> "service",
                 domain_url |-> Lit_https \o practiceData.practiceId \o Lit_direct_suffix])

\* mutant: a created repository makes strategy 1 succeed though hosting failed
attemptFullGithubRailwayDeployment_partialOk(practiceData, gh, rw) ==
    LET repoName == practiceData.practiceId \o Lit_demo_suffix
        githubResult == createGitHubRepository(practiceData, repoName, gh)
    IN  IF ~githubResult.success THEN Throw("GitHub creation failed")
        ELSE Return([success |-> TRUE,
                     github_repo |-> githubResult.repo_url,
                     railway_url |-> <<>>,
                     method |-> "full-github-railway"])

attemptFullGithubRailwayDeployment(practiceData, gh, rw) ==
    LET repoName == practiceData.practiceId \o Lit_demo_suffix
        githubResult == createGitHubRepository(practiceData, repoName, gh)
    IN  IF ~githubResult.success THEN Throw("GitHub creation failed")
        ELSE
          LET railway == deployToRailwayViaMCP(practiceData, githubResult.repo_name, rw)
          IN  IF railway.threw THEN Throw("Railway deployment failed")
              ELSE Return([success |-> TRUE,
                           github_repo |-> githubResult.repo_url,
                           railway_url |-> railway.value.domain_url,
                           project_id |-> railway.value.project_id,
                           service_id |-> railway.value.service_id,
                           method |-> "full-github-railway"])

attemptExistingRepoDeployment(practiceData, rw) ==
    LET railway == deployToRailwayViaMCP(practiceData, <<"A","g","e","n","t","s","d","e","m","o">>, rw)
    IN  IF railway.threw THEN railway
        ELSE Return([success |-> TRUE,
                     github_repo |-> Lit_AgentsdemoUrl,
                     railway_url |-> railway.value.domain_url,
                     project_id |-> railway.value.project_id,
                     service_id |-> railway.value.service_id,
                     method |-> "existing-repo-railway"])

attemptDirectRailwayMCP(practiceData, rw) ==
    LET railway == createDirectRailwayService(practiceData, rw)
    IN  IF railway.threw THEN railway
        ELSE Return([success |-> TRUE,
                     github_repo |-> <<>>,
                     railway_url |-> railway.value.domain_url,
                     project_id |-> railway.value.project_id,
                     service_id |-> railway.value.service_id,
                     method |-> "direct-railway-mcp"])

\* mutant: the terminal strategy fails
createEmergencyMockDeployment_throws(practiceData, t) ==
    Throw("Cannot read properties of null (reading 'practiceId')")

createEmergencyMockDeployment(practiceData, t) ==
    Return([success |-> TRUE,
            github_repo |-> Lit_AgentsdemoUrl,
            railway_url |-> Lit_https \o practiceData.practiceId \o Lit_emergency_infix
                               \o DateNowString(t) \o Lit_mock_demo,
            project_id |-> "emergency-mock",
            service_id |-> "emergency-service",
            method |-> "emergency-mock"])

\* mutant: the name of the last strategy matches no case of the switch
deploymentStrategies_typo ==
    <<[name |-> "full-github-railway", priority |-> 1],
      [name |-> "existing-repo-railway", priority |-> 2],
      [name |-> "direct-railway-mcp", priority |-> 3],
      [name |-> "emergency_mock", priority |-> 4]>>

\* mutant: the second and third strategy change places
deploymentStrategies_swapped ==
    <<[name |-> "full-github-railway", priority |-> 1],
      [name |-> "direct-railway-mcp", priority |-> 2],
      [name |-> "existing-repo-railway", priority |-> 3],
      [name |-> "emergency-mock", priority |-> 4]>>

deploymentStrategies ==
    <<[name |-> "full-github-railway", priority |-> 1],
      [name |-> "existing-repo-railway", priority |-> 2],
      [name |-> "direct-railway-mcp", priority |-> 3],
      [name |-> "emergency-mock", priority |-> 4]>>
LastPriority == 4

\* a switch none of whose cases matches: nothing is returned, nothing thrown
NoCase == [threw |-> FALSE, nocase |-> TRUE]

\* the switch of createPersonalizedRepository: the call made for one strategy
runStrategy(strategy, practiceData, gh, rw, t) ==
    \* each of the four calls reads practiceData.practiceId: a TypeError on null
    IF practiceData = NoValue /\ strategy.name \in
          {"full-github-railway", "existing-repo-railway", "direct-railway-mcp",
           "emergency-mock"}
    THEN Throw("Cannot read properties of null (reading 'practiceId')")
    ELSE IF strategy.name = "full-github-railway"
    THEN attemptFullGithubRailwayDeployment(practiceData, gh, rw)
    ELSE IF strategy.name = "existing-repo-railway"
    THEN attemptExistingRepoDeployment(practiceData, rw)
    ELSE IF strategy.name = "direct-railway-mcp"
    THEN attemptDirectRailwayMCP(practiceData, rw)
    ELSE IF strategy.name = "emergency-mock"
    THEN createEmergencyMockDeployment(practiceData, t)
    ELSE NoCase

\* mutant: the cascade gives up when the third strategy has thrown
cascadeIteration_exhaustsAtThree(i, practiceData, gh, rw, t) ==
    IF i > Len(deploymentStrategies) THEN [done |-> TRUE, result |-> NoValue]
    ELSE
      LET strategy == deploymentStrategies[i]
          out == runStrategy(strategy, practiceData, gh, rw, t)
      IN  IF out.threw
          THEN IF strategy.priority = LastPriority - 1
               THEN [done |-> TRUE,
                     result |-> [success |-> FALSE,
                                 error |-> "All deployment strategies failed",
                                 method |-> "all-failed"]]
               ELSE [done |-> FALSE, next |-> i + 1]
          ELSE IF Flag(out, "nocase") THEN [done |-> FALSE, next |-> i + 1]
          ELSE [done |-> TRUE, result |-> out.value]

\* mutant: a strategy that threw is tried again after the pacing delay
cascadeIteration_retry(i, practiceData, gh, rw, t) ==
    IF i > Len(deploymentStrategies) THEN [done |-> TRUE, result |-> NoValue]
    ELSE
      LET strategy == deploymentStrategies[i]
          out == runStrategy(strategy, practiceData, gh, rw, t)
      IN  IF out.threw
          THEN IF strategy.priority = LastPriority
               THEN [done |-> TRUE,
                     result |-> [success |-> FALSE,
                                 error |-> "All deployment strategies failed",
                                 method |-> "all-failed"]]
               ELSE [done |-> FALSE, next |-> i]
          ELSE IF Flag(out, "nocase") THEN [done |-> FALSE, next |-> i + 1]
          ELSE [done |-> TRUE, result |-> out.value]

\* One iteration of the loop of createPersonalizedRepository, for the strategy at
\* index i: the function returns a result, or the loop goes on to index i + 1
\* (after the pacing delay when the strategy threw).  Past the last strategy the
\* loop ends and the function returns undefined (NoValue).
cascadeIteration(i, practiceData, gh, rw, t) ==
    IF i > Len(deploymentStrategies) THEN [done |-> TRUE, result |-> NoValue]
    ELSE
      LET strategy == deploymentStrategies[i]
          out == runStrategy(strategy, practiceData, gh, rw, t)
      IN  IF out.threw
          THEN IF strategy.priority = LastPriority
               THEN [done |-> TRUE,
                     result |-> [success |-> FALSE,
                                 error |-> "All deployment strategies failed",
                                 method |-> "all-failed"]]
               ELSE [done |-> FALSE, next |-> i + 1]
          ELSE IF Flag(out, "nocase") THEN [done |-> FALSE, next |-> i + 1]
          ELSE [done |-> TRUE, result |-> out.value]


\* ------------------------------------------------------------------------
\* The agent: state
\* ------------------------------------------------------------------------
VARIABLES
    variant,            \* which program runs: "fault-tolerant" (part_000) or "3-step"
    exa_api_key,        \* config.exa_api_key is set
    clock,              \* milliseconds since the process started
    currentStep,        \* this.currentStep
    deploymentResults,  \* this.deploymentResults
    wf,                 \* the processHealthcarePractice calls: locals and position
    calls,              \* number of processHealthcarePractice calls made so far
    batch,              \* the processBatchHealthcarePractices call: locals and position
    recovery,           \* the POST /recover request: locals and position
    probe               \* a function of the program applied on its own: input and output

vars == <<variant, exa_api_key, clock, currentStep, deploymentResults, wf, calls,
          batch, recovery, probe>>

\* what the single-workflow requests leave alone
others == <<batch, recovery, probe>>

\* the callers' slots: one call of processHealthcarePractice at a time each
Slots == {"w1"}
\* the target URLs the callers send
Urls == {Url_drsmith, Url_london, Url_ab, Url_clinic, Url_noscheme}

Idle == [pc |-> "idle"]

Init ==
    /\ variant \in {"fault-tolerant", "3-step"}
    /\ exa_api_key \in BOOLEAN
    /\ clock = 0
    /\ currentStep = "idle"
    /\ deploymentResults = <<>>
    /\ wf = [w \in Slots |-> Idle]
    /\ calls = 0
    /\ batch = Idle
    /\ recovery = Idle
    /\ probe = Idle

\* ------------------------------------------------------------------------
\* processHealthcarePractice, fault-tolerant variant (part_000)
\* ------------------------------------------------------------------------
initialStepResults ==
    [scraping |-> [success |-> FALSE, data |-> NoValue],
     notion |-> [success |-> FALSE, data |-> NoValue],
     deployment |-> [success |-> FALSE, data |-> NoValue]]

\* PHASE 0 once scrapeHealthcarePractice has settled with outcome out
phase0(url, out, t) ==
    IF ~out.threw /\ out.value.company # <<>>
    THEN Return([practiceData |-> out.value,
                 scraping |-> [success |-> TRUE, data |-> out.value]])
    ELSE
      LET error == IF out.threw THEN out.error ELSE "No valid practice data extracted"
          fallback == createMinimalFallbackData(url, t)
      IN  IF fallback.threw THEN fallback
          ELSE Return([practiceData |-> fallback.value,
                       scraping |-> [success |-> FALSE, error |-> error,
                                     data |-> fallback.value, fallback_used |-> TRUE]])

\* PHASE 1 once storeLeadInNotion has settled with outcome out
phase1(practiceData, out, t) ==
    IF ~out.threw
    THEN [notionResult |-> out.value,
          notion |-> [success |-> TRUE, data |-> out.value]]
    ELSE
      LET emergency == [success |-> TRUE,
                        leadId |-> Lit_emergency_ \o DateNowString(t),
                        record |-> [company |-> practiceData.company,
                                    status |-> Lit_EmergencyFallback],
                        is_emergency_fallback |-> TRUE]
      IN  [notionResult |-> emergency,
           notion |-> [success |-> FALSE, error |-> out.error,
                       data |-> emergency, emergency_fallback |-> TRUE]]

\* PHASE 2+3 once createPersonalizedRepository has settled with outcome out
phase2(out) ==
    IF ~out.threw /\ out.value # NoValue
    THEN [deploymentResult |-> out.value,
          deployment |-> [success |-> out.value.success, data |-> out.value]]
    ELSE
      LET error == IF out.threw THEN out.error
                   ELSE "Cannot read properties of undefined (reading 'success')"
          failed == [success |-> FALSE,
                     error |-> error,
                     github_repo |-> Lit_NA,
                     railway_url |-> Lit_NA,
                     method |-> "failed-with-fallback"]
      IN  [deploymentResult |-> failed,
           deployment |-> [success |-> FALSE, error |-> error,
                           data |-> failed, fallback_used |-> TRUE]]

successfulSteps(stepResults) ==
    Cardinality({p \in {"scraping", "notion", "deployment"} : stepResults[p].success})
totalSteps == 3

\* mutant: 'complete' asks for more successful steps than there are
workflowStatus_offByOne(stepResults) ==
    IF successfulSteps(stepResults) > totalSteps THEN "complete"
    ELSE IF successfulSteps(stepResults) > 0 THEN "partial-success"
    ELSE "failed"

\* mutant: one successful step does not count as partial success
workflowStatus_partialFromTwo(stepResults) ==
    IF successfulSteps(stepResults) = totalSteps THEN "complete"
    ELSE IF successfulSteps(stepResults) > 1 THEN "partial-success"
    ELSE "failed"

workflowStatus(stepResults) ==
    IF successfulSteps(stepResults) = totalSteps THEN "complete"
    ELSE IF successfulSteps(stepResults) > 0 THEN "partial-success"
    ELSE "failed"

\* mutant: the result object carries no success flag
buildResult_noSuccessFlag(L, stepResults, notionResult, deploymentResult, t) ==
    [workflow_status |-> workflowStatus(stepResults),
     practice |-> [company |-> L.practiceData.company],
     deployment |-> [method |-> deploymentResult.method],
     notion |-> [stored |-> notionResult.success, lead_id |-> notionResult.leadId],
     step_analysis |-> [scraping |-> stepResults.scraping,
                        notion |-> stepResults.notion,
                        deployment |-> stepResults.deployment,
                        successful_steps |-> successfulSteps(stepResults),
                        total_steps |-> totalSteps],
     timing |-> [started_at |-> L.startTime, completed_at |-> t],
     fault_tolerance |-> [enabled |-> TRUE, fallbacks_used |-> {}]]

\* PHASE 4: the result object
buildResult(L, stepResults, notionResult, deploymentResult, t) ==
    [success |-> workflowStatus(stepResults) # "failed",
     workflow_status |-> workflowStatus(stepResults),
     practice |-> [company |-> L.practiceData.company,
                   doctor |-> GetStr(L.practiceData, "doctor"),
                   location |-> GetStr(L.practiceData, "location"),
                   practice_id |-> GetStr(L.practiceData, "practiceId")],
     deployment |-> [github_repo |-> GetStr(deploymentResult, "github_repo"),
                     railway_url |-> GetStr(deploymentResult, "railway_url"),
                     method |-> deploymentResult.method],
     \* is_fallback is undefined (falsy) when neither flag is set
     notion |-> [stored |-> notionResult.success,
                 lead_id |-> notionResult.leadId,
                 is_fallback |-> Flag(notionResult, "is_fallback")
                                    \/ Flag(notionResult, "is_emergency_fallback")],
     step_analysis |-> [scraping |-> stepResults.scraping,
                        notion |-> stepResults.notion,
                        deployment |-> stepResults.deployment,
                        successful_steps |-> successfulSteps(stepResults),
                        total_steps |-> totalSteps],
     timing |-> [started_at |-> L.startTime, completed_at |-> t],
     fault_tolerance |->
        [enabled |-> TRUE,
         fallbacks_used |->
            {p \in {"scraping", "notion-emergency", "deployment"} :
                \/ p = "scraping" /\ Flag(stepResults.scraping, "fallback_used")
                \/ p = "notion-emergency" /\ Flag(stepResults.notion, "emergency_fallback")
                \/ p = "deployment" /\ Flag(stepResults.deployment, "fallback_used")}]]


\* The effect of a stretch of processHealthcarePractice between two awaited
\* events: the call's locals, the last write to this.currentStep, and what is
\* pushed on this.deploymentResults.
Effect(local, step, push) == [local |-> local, currentStep |-> step, push |-> push]

\* locals at the call; search, store, github record what the services did,
\* scrape and notionThrew how scrapeHealthcarePractice and storeLeadInNotion settled
freshLocals(url, t) ==
    [pc |-> "start", url |-> url, startTime |-> t,
     practiceData |-> NoValue, stepResults |-> initialStepResults,
     notionT0 |-> t, notionResult |-> NoValue,
     strategy |-> 1, attempts |-> <<>>,
     result |-> NoValue, raised |-> FALSE, error |-> "",
     search |-> "none", scrape |-> "none", store |-> "none", notionThrew |-> FALSE,
     github |-> "none"]

\* the call rejects: the exception leaves processHealthcarePractice
raise(L, error, step) ==
    Effect([L EXCEPT !.pc = "done", !.raised = TRUE, !.error = error], step, <<>>)

\* mutant: the result is returned without being pushed on the history
return_noPush(L, result, step) ==
    Effect([L EXCEPT !.pc = "done", !.result = result], step, <<>>)

\* the call returns result
return(L, result, step) ==
    Effect([L EXCEPT !.pc = "done", !.result = result], step, <<result>>)

\* mutant: the call returns without the final write to this.currentStep
ftFinish_keepsStep(L, out, t) ==
    LET p2 == phase2(out)
        stepResults == [L.stepResults EXCEPT !.deployment = p2.deployment]
        result == buildResult(L, stepResults, L.notionResult, p2.deploymentResult, t)
    IN  return([L EXCEPT !.stepResults = stepResults], result, "github-repo")

\* PHASE 4 and the return
ftFinish(L, out, t) ==
    LET p2 == phase2(out)
        stepResults == [L.stepResults EXCEPT !.deployment = p2.deployment]
        result == buildResult(L, stepResults, L.notionResult, p2.deploymentResult, t)
    IN  return([L EXCEPT !.stepResults = stepResults], result,
               IF result.workflow_status = "complete" THEN "complete" ELSE "partial")

\* createPersonalizedRepository from the strategy at index L.strategy up to the
\* pacing delay or the return
ftCascade(L, gh, rw, t) ==
    LET it == cascadeIteration(L.strategy, L.practiceData, gh, rw, t)
        L1 == IF L.strategy > Len(deploymentStrategies) THEN L
              ELSE [L EXCEPT !.attempts = Append(@, deploymentStrategies[L.strategy].name),
                             !.github = IF L.strategy = 1 THEN gh ELSE @]
    IN  IF it.done THEN ftFinish(L1, Return(it.result), t)
        ELSE Effect([L1 EXCEPT !.pc = "cascade", !.strategy = it.next], "github-repo", <<>>)

\* mutant: storeLeadInNotion is not awaited, provisioning starts at once
ftAfterScrape_noAwait(L, out, t) ==
    LET p0 == phase0(L.url, out, t)
    IN  IF p0.threw THEN raise(L, p0.error, "exa-search-discovery")
        ELSE Effect([L EXCEPT !.pc = "cascade",
                              !.practiceData = p0.value.practiceData,
                              !.stepResults.scraping = p0.value.scraping,
                              !.notionT0 = t,
                              !.attempts = <<deploymentStrategies[1].name>>,
                              !.strategy = 2],
                    "github-repo", <<>>)

\* from the settling of scrapeHealthcarePractice to the store call
ftAfterScrape(L, out, t) ==
    LET p0 == phase0(L.url, out, t)
    IN  IF p0.threw THEN raise(L, p0.error, "exa-search-discovery")
        ELSE Effect([L EXCEPT !.pc = "notion",
                              !.practiceData = p0.value.practiceData,
                              !.stepResults.scraping = p0.value.scraping,
                              !.notionT0 = t],
                    "notion-storage", <<>>)

\* mutant: persistence writes its normalisation into the lead record
ftAfterNotion_normalizesInPlace(L, out, gh, rw, t) ==
    LET p1 == phase1(L.practiceData, out, t)
    IN  ftCascade([L EXCEPT !.notionResult = p1.notionResult,
                            !.stepResults.notion = p1.notion,
                            !.practiceData = validateNotionData(L.practiceData, t).value
                                                @@ L.practiceData],
                  gh, rw, t)

\* from the settling of storeLeadInNotion to the first pacing delay or the return
ftAfterNotion(L, out, gh, rw, t) ==
    LET p1 == phase1(L.practiceData, out, t)
    IN  ftCascade([L EXCEPT !.notionResult = p1.notionResult,
                            !.stepResults.notion = p1.notion],
                  gh, rw, t)

\* ------------------------------------------------------------------------
\* processHealthcarePractice, 3-step variant (autonomous-agent.js)
\* ------------------------------------------------------------------------
\* mutant: the catch block throws the error on
s3Catch_rethrows(L, error, t) == raise(L, error, "failed")

\* the catch block: a failure result, pushed and returned
s3Catch(L, error, t) ==
    return(L,
           [success |-> FALSE,
            workflow_type |-> "3-step-simplified",
            error |-> error,
            practice |-> IF L.practiceData = NoValue THEN NoValue
                         ELSE [company |-> L.practiceData.company,
                               practice_id |-> L.practiceData.practiceId],
            timing |-> [started_at |-> L.startTime, completed_at |-> t]],
           "failed")

s3AfterScrape(L, out, t) ==
    IF out.threw THEN s3Catch(L, out.error, t)
    ELSE IF out.value.company = <<>>
    THEN s3Catch([L EXCEPT !.practiceData = out.value],
                 "No valid practice data extracted", t)
    ELSE Effect([L EXCEPT !.pc = "notion", !.practiceData = out.value, !.notionT0 = t],
                "notion-storage", <<>>)

s3AfterNotion(L, out, t) ==
    IF out.threw THEN s3Catch(L, out.error, t)
    ELSE
      LET notionResult == out.value
      IN  return([L EXCEPT !.notionResult = notionResult],
                 [success |-> TRUE,
                  workflow_type |-> "3-step-simplified",
                  practice |-> [company |-> L.practiceData.company,
                                location |-> L.practiceData.location,
                                practice_id |-> L.practiceData.practiceId,
                                services |-> L.practiceData.services,
                                treatments |-> L.practiceData.treatments,
                                lead_score |-> L.practiceData.lead_score],
                  \* is_fallback is undefined (falsy) when the flag is not set
                  notion |-> [stored |-> notionResult.success,
                              lead_id |-> notionResult.leadId,
                              is_fallback |-> Flag(notionResult, "is_fallback")],
                  timing |-> [started_at |-> L.startTime, completed_at |-> t]],
                 "complete")

\* ------------------------------------------------------------------------
\* Actions
\* ------------------------------------------------------------------------
afterScrape(L, out, t) ==
    LET L1 == [L EXCEPT !.scrape = IF out.threw THEN "threw" ELSE "returned"]
    IN  IF variant = "fault-tolerant" THEN ftAfterScrape(L1, out, t)
        ELSE s3AfterScrape(L1, out, t)

afterNotion(L, out, gh, rw, t) ==
    LET L1 == [L EXCEPT !.notionThrew = out.threw]
    IN  IF variant = "fault-tolerant" THEN ftAfterNotion(L1, out, gh, rw, t)
        ELSE s3AfterNotion(L1, out, t)

Apply(w, eff) ==
    /\ wf' = [wf EXCEPT ![w] = eff.local]
    /\ currentStep' = eff.currentStep
    /\ deploymentResults' = deploymentResults \o eff.push

\* A caller calls processHealthcarePractice(url).  The call runs up to its first
\* awaited event: the search request when a key is configured and the URL
\* parses, else (scrapeHealthcarePractice settles at once) the store call, or
\* the end of the call.
Request(w, url) ==
    /\ wf[w].pc = "idle"
    /\ calls < MaxCalls
    /\ calls' = calls + 1
    /\ LET L == freshLocals(url, clock)
       IN  IF URLParses(url) /\ exa_api_key
           THEN Apply(w, Effect([L EXCEPT !.pc = "exa"], "exa-search-discovery", <<>>))
           ELSE Apply(w, afterScrape(L,
                            scrapeHealthcarePractice(url, exa_api_key, NoValue, clock),
                            clock))
    /\ UNCHANGED others
    /\ UNCHANGED <<variant, exa_api_key, clock>>

\* the search request settles
ExaRespond(w) ==
    /\ wf[w].pc = "exa"
    /\ \E resp \in SearchResponses :
          Apply(w, afterScrape([wf[w] EXCEPT !.search = resp.kind],
                               scrapeHealthcarePractice(wf[w].url, exa_api_key, resp, clock),
                               clock))
    /\ UNCHANGED others
    /\ UNCHANGED <<variant, exa_api_key, clock, calls>>

\* the store call settles
NotionRespond(w) ==
    /\ wf[w].pc = "notion"
    /\ \E storeOk \in BOOLEAN, rnd \in RandomSuffixes,
          gh \in GithubOutcomes, rw \in RailwayOutcomes :
          LET L == wf[w]
          IN  Apply(w, afterNotion(
                         [L EXCEPT !.store = IF storeOk THEN "ok" ELSE "failed"],
                         storeLeadInNotion(L.practiceData, storeOk, L.notionT0, clock, rnd),
                         gh, rw, clock))
    /\ UNCHANGED others
    /\ UNCHANGED <<variant, exa_api_key, clock, calls>>

\* the pacing delay of createPersonalizedRepository ends: the next strategy
CascadeStep(w) ==
    /\ wf[w].pc = "cascade"
    /\ \E rw \in RailwayOutcomes : Apply(w, ftCascade(wf[w], "none", rw, clock))
    /\ UNCHANGED others
    /\ UNCHANGED <<variant, exa_api_key, clock, calls>>

\* the caller takes the result, or the exception, of a finished call
Collect(w) ==
    /\ wf[w].pc = "done"
    /\ wf' = [wf EXCEPT ![w] = Idle]
    /\ UNCHANGED others
    /\ UNCHANGED <<variant, exa_api_key, clock, currentStep, deploymentResults, calls>>

\* time passes
Tick ==
    /\ clock < MaxClock
    /\ clock' = clock + 1
    /\ UNCHANGED others
    /\ UNCHANGED <<variant, exa_api_key, currentStep, deploymentResults, wf, calls>>

Next ==
    \/ \E w \in Slots, url \in Urls : Request(w, url)
    \/ \E w \in Slots : ExaRespond(w)
    \/ \E w \in Slots : NotionRespond(w)
    \/ \E w \in Slots : CascadeStep(w)
    \/ \E w \in Slots : Collect(w)
    \/ Tick

Spec == Init /\ [][Next]_vars

\* The same program with the scheduling the runtime guarantees: a timer that
\* was set fires (the 300 ms of the mock store call, the 1 s pacing delay of the
\* cascade).  The search request carries no timeout option: nothing obliges the
\* search service to settle it, so ExaRespond is not fair.
\* NotionRespond(w) is enabled exactly when the call is at "notion" and always
\* leaves that position, so weak fairness of it is []<>(wf[w].pc # "notion");
\* it is stated in that form.
SpecLive ==
    /\ Init /\ [][Next]_vars
    /\ \A w \in Slots : WF_vars(CascadeStep(w))
    /\ \A w \in Slots : []<>(wf[w].pc # "notion")


\* ------------------------------------------------------------------------
\* processBatchHealthcarePractices
\* ------------------------------------------------------------------------
concurrencyLimit == 3

\* the url arrays the batch is called with: seven targets (three of them
\* unparsable), two, three (one of them twice), four with two unparsable, four
\* that all parse and none
BatchInputs ==
    {<<Url_drsmith, Url_noscheme, Url_ab, Url_noscheme, Url_clinic, Url_noscheme, Url_london>>,
     <<Url_noscheme, Url_london>>,
     <<Url_ab, Url_ab, Url_clinic>>,
     <<Url_clinic, Url_drsmith, Url_noscheme, Url_noscheme>>,
     <<Url_london, Url_ab, Url_clinic, Url_drsmith>>,
     <<>>}
LongestBatch == 7

\* what the services answer during a batch
BatchSearchResponses == {[kind |-> "error"], [kind |-> "results", content |-> ContentRich]}
BatchStoreOutcomes == BOOLEAN
BatchRandomSuffix == <<"k","3","x">>
BatchGithub == "failed"
BatchRailway == "failed"

\* mutant: the slice starts one element early
WindowIndices_fromPrevious(urls, i) ==
    {j \in i..Min(i + concurrencyLimit, Len(urls)) : j >= 1}

\* the indices (from 1) of urls.slice(i, i + concurrencyLimit)
WindowIndices(urls, i) == (i + 1)..Min(i + concurrencyLimit, Len(urls))

\* mutant: the catch branch of the callback reports success too
entryOf_alwaysSuccess(L) ==
    IF L.raised THEN [url |-> L.url, success |-> TRUE, error |-> L.error]
    ELSE [url |-> L.url, success |-> TRUE, result |-> L.result]

\* mutant: the entry carries the success flag of the workflow result
entryOf_copiesResult(L) ==
    IF L.raised THEN [url |-> L.url, success |-> FALSE, error |-> L.error]
    ELSE [url |-> L.url, success |-> Flag(L.result, "success"), result |-> L.result]

\* what the callback of batch.map returns for a call that has ended
entryOf(L) ==
    IF L.raised THEN [url |-> L.url, success |-> FALSE, error |-> L.error]
    ELSE [url |-> L.url, success |-> TRUE, result |-> L.result]

\* mutant: Promise.race in the place of Promise.all
allSettled_any(b) ==
    \E j \in WindowIndices(b.urls, b.i) : b.runs[j].pc = "done"

\* await Promise.all(batchPromises) can resume
allSettled(b) ==
    \A j \in WindowIndices(b.urls, b.i) : b.runs[j].pc = "done"

\* batch.map(...) on the window at offset i: every call runs up to its first await
launchWindow(b, i, t) ==
    [b EXCEPT !.pc = "window",
              !.i = i,
              !.windows = Append(@, Cardinality(WindowIndices(b.urls, i))),
              !.runs = [j \in DOMAIN b.runs |->
                          IF j \in WindowIndices(b.urls, i)
                          THEN [freshLocals(b.urls[j], t) EXCEPT
                                  !.pc = IF URLParses(b.urls[j]) /\ exa_api_key
                                         THEN "exa" ELSE "start"]
                          ELSE b.runs[j]]]

\* no call of the window has a continuation that is ready to run: timers and
\* responses are handled only then
NoneReady(b) == \A j \in DOMAIN b.runs : b.runs[j].pc # "start"

BatchApply(j, eff) ==
    /\ batch' = [batch EXCEPT !.runs[j] = eff.local]
    /\ currentStep' = eff.currentStep
    /\ deploymentResults' = deploymentResults \o eff.push

\* processBatchHealthcarePractices(urls) is called
BatchRequest(urls) ==
    /\ batch.pc = "idle"
    /\ LET b == [pc |-> "done", urls |-> urls, i |-> 0,
                 runs |-> [j \in DOMAIN urls |-> Idle],
                 results |-> <<>>, windows |-> <<>>]
       IN  IF urls = <<>>
           THEN batch' = b /\ UNCHANGED currentStep
           ELSE batch' = launchWindow(b, 0, clock)
                /\ currentStep' = "exa-search-discovery"
    /\ UNCHANGED <<variant, exa_api_key, clock, deploymentResults, wf, calls,
                   recovery, probe>>

\* a call whose scrapeHealthcarePractice waits for no service goes on
BatchSettle(j) ==
    /\ batch.pc \in {"window", "loop"} /\ j \in DOMAIN batch.runs
    /\ batch.runs[j].pc = "start"
    /\ LET L == batch.runs[j]
       IN  BatchApply(j, afterScrape(L,
                            scrapeHealthcarePractice(L.url, exa_api_key, NoValue, clock),
                            clock))
    /\ UNCHANGED <<variant, exa_api_key, clock, wf, calls, recovery, probe>>

\* the search request of a call settles
BatchExaRespond(j) ==
    /\ batch.pc \in {"window", "loop"} /\ j \in DOMAIN batch.runs
    /\ NoneReady(batch)
    /\ batch.runs[j].pc = "exa"
    /\ \E resp \in BatchSearchResponses :
          LET L == batch.runs[j]
          IN  BatchApply(j, afterScrape([L EXCEPT !.search = resp.kind],
                               scrapeHealthcarePractice(L.url, exa_api_key, resp, clock),
                               clock))
    /\ UNCHANGED <<variant, exa_api_key, clock, wf, calls, recovery, probe>>

\* the store call of a call settles
BatchNotionRespond(j) ==
    /\ batch.pc \in {"window", "loop"} /\ j \in DOMAIN batch.runs
    /\ NoneReady(batch)
    /\ batch.runs[j].pc = "notion"
    /\ \E storeOk \in BatchStoreOutcomes :
          LET L == batch.runs[j]
          IN  BatchApply(j, afterNotion(
                         [L EXCEPT !.store = IF storeOk THEN "ok" ELSE "failed"],
                         storeLeadInNotion(L.practiceData, storeOk, L.notionT0, clock,
                                           BatchRandomSuffix),
                         BatchGithub, BatchRailway, clock))
    /\ UNCHANGED <<variant, exa_api_key, clock, wf, calls, recovery, probe>>

\* the pacing delay of a call's createPersonalizedRepository ends
BatchCascadeStep(j) ==
    /\ batch.pc \in {"window", "loop"} /\ j \in DOMAIN batch.runs
    /\ NoneReady(batch)
    /\ batch.runs[j].pc = "cascade"
    /\ BatchApply(j, ftCascade(batch.runs[j], "none", BatchRailway, clock))
    /\ UNCHANGED <<variant, exa_api_key, clock, wf, calls, recovery, probe>>

\* Promise.all resolves: results.push(...batchResults), then the pause
\* between windows or the return
BatchGather ==
    /\ batch.pc = "window"
    /\ allSettled(batch)
    /\ LET w == WindowIndices(batch.urls, batch.i)
           batchResults == [k \in 1..Cardinality(w) |-> entryOf(batch.runs[batch.i + k])]
       IN  batch' = [batch EXCEPT
                       !.results = @ \o batchResults,
                       !.pc = IF batch.i + concurrencyLimit < Len(batch.urls)
                              THEN "pause" ELSE "done"]
    /\ UNCHANGED <<variant, exa_api_key, clock, currentStep, deploymentResults, wf, calls,
                   recovery, probe>>

\* the pause between two windows ends, the clock has moved on: the next window
BatchResume ==
    /\ batch.pc = "pause"
    /\ clock' = Min(clock + 1, MaxClock)
    /\ batch' = launchWindow(batch, batch.i + concurrencyLimit, clock')
    /\ currentStep' = "exa-search-discovery"
    /\ UNCHANGED <<variant, exa_api_key, deploymentResults, wf, calls,
                   recovery, probe>>

NextBatch ==
    \/ \E urls \in BatchInputs : BatchRequest(urls)
    \/ \E j \in 1..LongestBatch : BatchSettle(j)
    \/ \E j \in 1..LongestBatch : BatchExaRespond(j)
    \/ \E j \in 1..LongestBatch : BatchNotionRespond(j)
    \/ \E j \in 1..LongestBatch : BatchCascadeStep(j)
    \/ BatchGather
    \/ BatchResume

SpecBatch == Init /\ [][NextBatch]_vars

\* ------------------------------------------------------------------------
\* POST /automate with a urls array
\* ------------------------------------------------------------------------
\* results.filter(r => r.success).length and its complement
CountSuccess(results) == Cardinality({k \in DOMAIN results : results[k].success})
CountFailed(results) == Cardinality({k \in DOMAIN results : ~results[k].success})

\* the body of res.json(...) of the batch branch
automateResponse(results) ==
    [success |-> TRUE,
     batch_results |-> results,
     total_processed |-> Len(results),
     successful |-> CountSuccess(results),
     failed |-> CountFailed(results)]

\* the 3-step loop calls processHealthcarePractice(urls[k]); the call runs up
\* to its first await
automateCall(b, k, t) ==
    [b EXCEPT !.pc = "loop",
              !.i = k - 1,
              !.runs[k] = [freshLocals(b.urls[k], t) EXCEPT
                             !.pc = IF URLParses(b.urls[k]) /\ exa_api_key
                                    THEN "exa" ELSE "start"]]

\* the request arrives: the fault-tolerant route awaits
\* processBatchHealthcarePractices(urls), the 3-step route starts its loop
AutomateRequest(urls) ==
    IF variant = "fault-tolerant" THEN BatchRequest(urls)
    ELSE /\ batch.pc = "idle"
         /\ LET b == [pc |-> "done", urls |-> urls, i |-> 0,
                      runs |-> [j \in DOMAIN urls |-> Idle],
                      results |-> <<>>, windows |-> <<>>]
            IN  IF urls = <<>>
                THEN batch' = b /\ UNCHANGED currentStep
                ELSE batch' = automateCall(b, 1, clock)
                     /\ currentStep' = "exa-search-discovery"
         /\ UNCHANGED <<variant, exa_api_key, clock, deploymentResults, wf, calls,
                        recovery, probe>>

\* the awaited call of the loop has ended: the try or the catch pushes the
\* entry, then the next url or the end of the loop
AutomateLoop ==
    /\ batch.pc = "loop"
    /\ LET k == batch.i + 1
           pushed == [batch EXCEPT !.results = Append(@, entryOf(batch.runs[k]))]
       IN  /\ batch.runs[k].pc = "done"
           /\ IF k < Len(batch.urls)
              THEN /\ batch' = automateCall(pushed, k + 1, clock)
                   /\ currentStep' = "exa-search-discovery"
              ELSE /\ batch' = [pushed EXCEPT !.pc = "done"]
                   /\ UNCHANGED currentStep
    /\ UNCHANGED <<variant, exa_api_key, clock, deploymentResults, wf, calls,
                   recovery, probe>>

\* res.json(...)
AutomateRespond ==
    /\ batch.pc = "done"
    /\ batch' = [pc |-> "responded", urls |-> batch.urls, i |-> batch.i,
                 runs |-> batch.runs, results |-> batch.results,
                 windows |-> batch.windows,
                 response |-> automateResponse(batch.results)]
    /\ UNCHANGED <<variant, exa_api_key, clock, currentStep, deploymentResults, wf, calls,
                   recovery, probe>>

NextAutomate ==
    \/ \E urls \in BatchInputs : AutomateRequest(urls)
    \/ \E j \in 1..LongestBatch : BatchSettle(j)
    \/ \E j \in 1..LongestBatch : BatchExaRespond(j)
    \/ \E j \in 1..LongestBatch : BatchNotionRespond(j)
    \/ \E j \in 1..LongestBatch : BatchCascadeStep(j)
    \/ BatchGather
    \/ BatchResume
    \/ AutomateLoop
    \/ AutomateRespond

SpecAutomate == Init /\ [][NextAutomate]_vars

\* ------------------------------------------------------------------------
\* POST /recover: retryNotionStorage and retryDeploymentOnly
\* ------------------------------------------------------------------------
Lit_exampleCom == <<".","e","x","a","m","p","l","e",".","c","o","m">>
Lit_RecoveryLocation == <<"R","e","c","o","v","e","r","y"," ","L","o","c","a","t","i","o","n">>
Lit_RecoveryServices == <<"R","e","c","o","v","e","r","y"," ","S","e","r","v","i","c","e","s">>
Lit_healthcare_recovery == <<"h","e","a","l","t","h","c","a","r","e","-","r","e","c","o","v","e","r","y">>

\* the practice_id of a request: the id a workflow gave to the first sample
\* URL, an id no workflow produced, the empty string, and a missing
\* practice_id (undefined, 'undefined' inside the template strings)
RecoveryIds ==
    {generatePracticeId(extractCompanyFromUrl(URLHostname(Url_drsmith)), 0),
     <<"x","1">>, <<>>, <<"u","n","d","e","f","i","n","e","d">>}
RetryPhases == {"notion", "deployment", "scraping"}

\* the record retryNotionStorage synthesizes
retryNotionData(practiceId, t) ==
    [practiceId |-> practiceId,
     company |-> Lit_HealthcarePractice \o <<" ">> \o practiceId,
     domain |-> practiceId \o Lit_exampleCom,
     location |-> Lit_RecoveryLocation,
     services |-> Arr(<<Lit_RecoveryServices>>),
     url |-> Lit_https \o practiceId \o Lit_exampleCom,
     scraped_at |-> t,
     practice_type |-> Lit_healthcare_recovery,
     lead_score |-> 50,
     retry_attempt |-> TRUE]

\* the record retryDeploymentOnly synthesizes
retryDeploymentData(practiceId) ==
    [practiceId |-> practiceId,
     company |-> Lit_HealthcarePractice \o <<" ">> \o practiceId,
     domain |-> practiceId \o Lit_exampleCom]

\* mutant: the catch block of a retry function throws the error again
retryCatch_rethrows(error) == Throw(error)

\* the catch block of retryNotionStorage and of retryDeploymentOnly
retryCatch(error) == Return([success |-> FALSE, error |-> error])

\* return { success: x.success, data: x } in the try block of a retry function
retryReturn(x) ==
    IF x = NoValue
    THEN retryCatch("Cannot read properties of undefined (reading 'success')")
    ELSE Return([success |-> x.success, data |-> x])

\* mutant: the retry goes through storeLeadInNotion
retryNotionStorage_viaStore(fallbackData, storeOk, t, rnd) ==
    retryReturn(storeLeadInNotion(fallbackData, storeOk, t, t, rnd).value)

\* retryNotionStorage once its store call has settled: the synthesized record
\* goes to attemptNotionStorage as it is
retryNotionStorage(fallbackData, storeOk, t, rnd) ==
    retryReturn(attemptNotionStorage(fallbackData, storeOk, t, rnd))

\* the handler of POST /recover once the retry function has settled
respond(r, out) ==
    IF out.threw
    THEN [r EXCEPT !.pc = "done", !.raised = TRUE,
                   !.response = [status |-> 500,
                                 body |-> [success |-> FALSE, error |-> out.error,
                                           practice_id |-> r.practice_id]]]
    ELSE [r EXCEPT !.pc = "done", !.result = out.value,
                   !.response = [status |-> 200,
                                 body |-> [success |-> out.value.success,
                                           recovery_phase |-> r.retry_phase,
                                           result |-> out.value]]]

\* createPersonalizedRepository inside retryDeploymentOnly, from the strategy
\* at index r.strategy up to the pacing delay or the return
recoverCascade(r, gh, rw, t) ==
    LET it == cascadeIteration(r.strategy, r.fallbackData, gh, rw, t)
        r1 == IF r.strategy > Len(deploymentStrategies) THEN r
              ELSE [r EXCEPT !.attempts = Append(@, deploymentStrategies[r.strategy].name)]
    IN  IF it.done THEN respond(r1, retryReturn(it.result))
        ELSE [r1 EXCEPT !.pc = "cascade", !.strategy = it.next]

\* a POST /recover request arrives
RecoverRequest(practice_id, retry_phase) ==
    /\ recovery.pc = "idle"
    /\ LET r == [pc |-> "start", practice_id |-> practice_id, retry_phase |-> retry_phase,
                 fallbackData |-> NoValue, strategy |-> 1, attempts |-> <<>>,
                 result |-> NoValue, raised |-> FALSE, response |-> NoValue]
       IN  IF retry_phase = "notion"
           THEN /\ recovery' = [r EXCEPT !.pc = "notion",
                                         !.fallbackData = retryNotionData(practice_id, clock)]
                /\ currentStep' = "recovery"
           ELSE IF retry_phase = "deployment"
           THEN IF variant = "fault-tolerant"
                THEN \E gh \in GithubOutcomes, rw \in RailwayOutcomes :
                        /\ recovery' = recoverCascade(
                                           [r EXCEPT !.fallbackData =
                                                        retryDeploymentData(practice_id)],
                                           gh, rw, clock)
                        /\ currentStep' = "github-repo"
                ELSE /\ recovery' = respond(
                                       [r EXCEPT !.fallbackData =
                                                    retryDeploymentData(practice_id)],
                                       retryCatch("this.createPersonalizedRepository is not a function"))
                     /\ currentStep' = "recovery"
           ELSE /\ recovery' = respond(r, Return([success |-> FALSE,
                                                  error |-> "Invalid retry phase"]))
                /\ currentStep' = "recovery"
    /\ UNCHANGED <<variant, exa_api_key, clock, deploymentResults, wf, calls, batch, probe>>

\* the store call of retryNotionStorage settles
RecoverNotionRespond ==
    /\ recovery.pc = "notion"
    /\ \E storeOk \in BOOLEAN, rnd \in RandomSuffixes :
          recovery' = respond(recovery,
                              retryNotionStorage(recovery.fallbackData,
                                                 storeOk, clock, rnd))
    /\ UNCHANGED <<variant, exa_api_key, clock, currentStep, deploymentResults, wf, calls,
                   batch, probe>>

\* the pacing delay of createPersonalizedRepository ends: the next strategy
RecoverCascadeStep ==
    /\ recovery.pc = "cascade"
    /\ \E rw \in RailwayOutcomes :
          recovery' = recoverCascade(recovery, "none", rw, clock)
    /\ UNCHANGED <<variant, exa_api_key, clock, currentStep, deploymentResults, wf, calls,
                   batch, probe>>

NextRecover ==
    \/ \E practice_id \in RecoveryIds, retry_phase \in RetryPhases :
          RecoverRequest(practice_id, retry_phase)
    \/ RecoverNotionRespond
    \/ RecoverCascadeStep
    \/ Tick

SpecRecover == Init /\ [][NextRecover]_vars

\* ------------------------------------------------------------------------
\* createPersonalizedRepository on its own
\* ------------------------------------------------------------------------
\* the records the callers pass (of the workflow, of the recovery) and null
CascadeInputs ==
    {createMinimalFallbackData(url, 0).value : url \in {u \in Urls : URLParses(u)}}
        \cup {retryDeploymentData(id) : id \in RecoveryIds}
        \cup {NoValue}

InitCascade ==
    /\ variant = "fault-tolerant"
    /\ exa_api_key = FALSE
    /\ clock = 0
    /\ currentStep = "idle"
    /\ deploymentResults = <<>>
    /\ wf = [w \in Slots |-> Idle]
    /\ calls = 0
    /\ batch = Idle
    /\ recovery = Idle
    /\ probe \in {[pc |-> "cascade", practiceData |-> d, strategy |-> 1,
                   attempts |-> <<>>, threw |-> <<>>, github |-> "none",
                   result |-> NoValue] : d \in CascadeInputs}

\* The call up to its first pacing delay, and from the end of a pacing delay
\* to the next one or to the return; threw lists the strategies that raised.
CascadeRun ==
    /\ probe.pc = "cascade"
    /\ \E gh \in GithubOutcomes, rw \in RailwayOutcomes :
          LET i == probe.strategy
              it == cascadeIteration(i, probe.practiceData, gh, rw, clock)
              p1 == IF i > Len(deploymentStrategies) THEN probe
                    ELSE [probe EXCEPT
                            !.attempts = Append(@, deploymentStrategies[i].name),
                            !.threw = IF runStrategy(deploymentStrategies[i],
                                                     probe.practiceData, gh, rw, clock).threw
                                      THEN Append(@, deploymentStrategies[i].name)
                                      ELSE @,
                            !.github = IF i = 1 /\ probe.practiceData # NoValue
                                       THEN gh ELSE @]
          IN  probe' = IF it.done
                       THEN [p1 EXCEPT !.pc = "done", !.result = it.result]
                       ELSE [p1 EXCEPT !.strategy = it.next]
    /\ currentStep' = "github-repo"
    /\ UNCHANGED <<variant, exa_api_key, clock, deploymentResults, wf, calls, batch, recovery>>

NextCascade ==
    \/ CascadeRun
    \/ Tick

SpecCascade == InitCascade /\ [][NextCascade]_vars

\* ------------------------------------------------------------------------
\* calculateLeadScore on its own
\* ------------------------------------------------------------------------
\* the signals of a score: how many services, treatments and specializations,
\* whether a phone, an email and a location are there, the analysed length
MaxServices == 6
MaxTreatments == 7
MaxSpecializations == 1
ContentLengths == <<0, 1000, 1001>>

Signals ==
    [services : 0..MaxServices, treatments : 0..MaxTreatments,
     specializations : 0..MaxSpecializations,
     phone : BOOLEAN, email : BOOLEAN, location : BOOLEAN,
     content : DOMAIN ContentLengths]

\* an exaData object with these signals
ExaDataOf(sig) ==
    [services |-> Arr([i \in 1..sig.services |-> Svc_0]),
     treatments |-> Arr([i \in 1..sig.treatments |-> Lit_Consultation]),
     specializations |-> Arr([i \in 1..sig.specializations |-> Spec_cosmetic]),
     phone |-> IF sig.phone THEN Phone_rich ELSE <<>>,
     email |-> IF sig.email THEN Email_rich ELSE <<>>,
     location |-> IF sig.location THEN Loc_rich ELSE <<>>,
     content_analyzed |-> ContentLengths[sig.content]]

\* one signal more, the others as they are
Increased(sig, name) ==
    IF name \in {"phone", "email", "location"} THEN [sig EXCEPT ![name] = TRUE]
    ELSE [sig EXCEPT ![name] = @ + 1]

InitScore ==
    /\ variant = "fault-tolerant"
    /\ exa_api_key = FALSE
    /\ clock = 0
    /\ currentStep = "idle"
    /\ deploymentResults = <<>>
    /\ wf = [w \in Slots |-> Idle]
    /\ calls = 0
    /\ batch = Idle
    /\ recovery = Idle
    /\ probe \in {[pc |-> "score", signals |-> sig, scored |-> FALSE, score |-> 0,
                    increased |-> FALSE, before |-> 0] : sig \in Signals}

\* calculateLeadScore(exaData) is called
ScoreLead ==
    /\ probe.pc = "score" /\ ~probe.scored
    /\ probe' = [probe EXCEPT !.scored = TRUE,
                               !.score = calculateLeadScore(ExaDataOf(probe.signals))]
    /\ UNCHANGED <<variant, exa_api_key, clock, currentStep, deploymentResults, wf, calls,
                   batch, recovery>>

\* calculateLeadScore is called again on an exaData with one signal more
ScoreIncreased(name) ==
    /\ probe.pc = "score" /\ probe.scored /\ ~probe.increased
    /\ Increased(probe.signals, name) \in Signals
    /\ Increased(probe.signals, name) # probe.signals
    /\ probe' = [probe EXCEPT !.signals = Increased(probe.signals, name),
                               !.increased = TRUE,
                               !.before = probe.score,
                               !.score = calculateLeadScore(
                                            ExaDataOf(Increased(probe.signals, name)))]
    /\ UNCHANGED <<variant, exa_api_key, clock, currentStep, deploymentResults, wf, calls,
                   batch, recovery>>

NextScore ==
    \/ ScoreLead
    \/ \E name \in DOMAIN [services |-> 0, treatments |-> 0, specializations |-> 0,
                            phone |-> 0, email |-> 0, location |-> 0, content |-> 0] :
          ScoreIncreased(name)

SpecScore == InitScore /\ [][NextScore]_vars

\* ------------------------------------------------------------------------
\* validateNotionData on its own
\* ------------------------------------------------------------------------
\* the lead records enrichment produces: every sample URL that parses, with and
\* without a search key, every answer of the search service, every time
LeadRecords ==
    {scrapeHealthcarePractice(url, key, resp, t).value :
        url \in {u \in Urls : URLParses(u)}, key \in BOOLEAN,
        resp \in SearchResponses, t \in 0..MaxClock}

InitNormalize ==
    /\ variant \in {"fault-tolerant", "3-step"}
    /\ exa_api_key = FALSE
    /\ clock = 0
    /\ currentStep = "idle"
    /\ deploymentResults = <<>>
    /\ wf = [w \in Slots |-> Idle]
    /\ calls = 0
    /\ batch = Idle
    /\ recovery = Idle
    /\ probe \in {[pc |-> "normalize", input |-> r, applied |-> 0,
                    once |-> NoValue, twice |-> NoValue] : r \in LeadRecords}

\* validateNotionData(practiceData)
Normalize ==
    /\ probe.pc = "normalize" /\ probe.applied = 0
    /\ probe' = [probe EXCEPT !.applied = 1,
                               !.once = validateNotionData(probe.input, clock).value]
    /\ UNCHANGED <<variant, exa_api_key, clock, currentStep, deploymentResults, wf, calls,
                   batch, recovery>>

\* validateNotionData applied to the record it returned
NormalizeAgain ==
    /\ probe.pc = "normalize" /\ probe.applied = 1
    /\ probe' = [probe EXCEPT !.applied = 2,
                               !.twice = validateNotionData(probe.once, clock).value]
    /\ UNCHANGED <<variant, exa_api_key, clock, currentStep, deploymentResults, wf, calls,
                   batch, recovery>>

\* the wall clock between two calls
NormalizeTick ==
    /\ probe.pc \in {"normalize", "validate"}
    /\ clock < MaxClock
    /\ clock' = clock + 1
    /\ UNCHANGED <<variant, exa_api_key, currentStep, deploymentResults, wf, calls,
                   batch, recovery, probe>>

NextNormalize ==
    \/ Normalize
    \/ NormalizeAgain
    \/ NormalizeTick

SpecNormalize == InitNormalize /\ [][NextNormalize]_vars

\* ------------------------------------------------------------------------
\* validateNotionData over lead records of every shape
\* ------------------------------------------------------------------------
\* a record without its property f
Without(r, f) == [g \in DOMAIN r \ {f} |-> r[g]]

\* lead records as enrichment and the orchestrator's fallback build them
BaseRecords ==
    {scrapeHealthcarePractice(Url_drsmith, FALSE, NoValue, 0).value,
     scrapeHealthcarePractice(Url_london, TRUE,
                              [kind |-> "results", content |-> ContentFull], 0).value,
     createMinimalFallbackData(Url_clinic, 0).value}

\* companies: the one of the record, none, blank ones
CompanyCases == {"keep", "missing", "empty", "blank"}
\* scores: the one of the record, none, and integers around the limits
ScoreValues == {-5, 0, 1, 100, 101}
ScoreCases ==
    {[kind |-> "keep"], [kind |-> "missing"]}
        \cup {[kind |-> "set", value |-> v] : v \in ScoreValues}

WithCompany(r, c) ==
    IF c = "keep" THEN r
    ELSE IF c = "missing" THEN Without(r, "company")
    ELSE IF c = "empty" THEN [r EXCEPT !.company = <<>>]
    ELSE [r EXCEPT !.company = <<" ", "\t", " ">>]

WithScore(r, s) ==
    IF s.kind = "keep" THEN r
    ELSE IF s.kind = "missing" THEN Without(r, "lead_score")
    ELSE [r EXCEPT !.lead_score = s.value]

ValidateInputs ==
    {WithScore(WithCompany(r, c), s) : r \in BaseRecords, c \in CompanyCases, s \in ScoreCases}

InitValidate ==
    /\ variant \in {"fault-tolerant", "3-step"}
    /\ exa_api_key = FALSE
    /\ clock = 0
    /\ currentStep = "idle"
    /\ deploymentResults = <<>>
    /\ wf = [w \in Slots |-> Idle]
    /\ calls = 0
    /\ batch = Idle
    /\ recovery = Idle
    /\ probe \in {[pc |-> "validate", input |-> r, out |-> NoValue] : r \in ValidateInputs}

\* validateNotionData(practiceData): the record returned, or the exception
Validate ==
    /\ probe.pc = "validate" /\ probe.out = NoValue
    /\ probe' = [probe EXCEPT !.out = validateNotionData(probe.input, clock)]
    /\ UNCHANGED <<variant, exa_api_key, clock, currentStep, deploymentResults, wf, calls,
                   batch, recovery>>

NextValidate ==
    \/ Validate
    \/ NormalizeTick

SpecValidate == InitValidate /\ [][NextValidate]_vars

\* ------------------------------------------------------------------------
\* Properties
\* ------------------------------------------------------------------------
FaultTolerant == variant = "fault-tolerant"
Started(w) == wf[w].pc # "idle"
Finished(w) == wf[w].pc = "done"
Returned(w) == Finished(w) /\ ~wf[w].raised
\* the call got as far as the store call having settled
Stored(w) == Started(w) /\ wf[w].store # "none"
\* the call returned from createPersonalizedRepository
Provisioned(w) == FaultTolerant /\ Returned(w) /\ wf[w].store # "none"

PriorityOrder ==
    <<"full-github-railway", "existing-repo-railway", "direct-railway-mcp", "emergency-mock">>
Phases == {"scraping", "notion", "deployment"}

\* C1: storeLeadInNotion never raises on a lead record produced by enrichment and
\* always returns success = true with a non-empty leadId; when the store call
\* failed the result has is_fallback = true (and still a leadId).
C1_PersistAlwaysReturns ==
    \A w \in Slots :
        Stored(w) =>
            LET nr == wf[w].notionResult
            IN  /\ ~wf[w].notionThrew
                /\ nr # NoValue
                /\ Flag(nr, "success")
                /\ Has(nr, "leadId") /\ nr.leadId # <<>>
                /\ (wf[w].store = "failed" => Flag(nr, "is_fallback"))

C1_Witness ==
    \E w \in Slots :
        /\ Stored(w) /\ wf[w].store = "failed"
        /\ Flag(wf[w].notionResult, "is_fallback")
        /\ wf[w].notionResult.leadId # <<>>

\* C2: when strategies 1, 2 and 3 were all attempted and failed, the cascade
\* returns the result of strategy 4: success = true, method = 'emergency-mock'.
C2_MockAfterThreeFailures ==
    \A w \in Slots :
        (Provisioned(w) /\ Len(wf[w].attempts) > 3) =>
            LET d == wf[w].stepResults.deployment
            IN  /\ d.data # NoValue
                /\ d.data.method = "emergency-mock"
                /\ d.data.success
                /\ d.success
                /\ wf[w].result.deployment.method = "emergency-mock"

C2_Witness ==
    \E w \in Slots :
        /\ Provisioned(w)
        /\ Len(wf[w].attempts) = 4
        /\ wf[w].github = "failed"
        /\ wf[w].stepResults.deployment.data.method = "emergency-mock"

\* C3: createPersonalizedRepository is total: whatever source control and
\* hosting do, it returns a provisioning result object (never undefined) and
\* raises nothing, so the orchestrator's deployment catch block never runs and
\* the loop never runs past the last strategy.
C3_CascadeTotal ==
    \A w \in Slots :
        /\ (Started(w) /\ wf[w].pc = "cascade") =>
                wf[w].strategy \in 2..Len(PriorityOrder)
        /\ Provisioned(w) =>
            LET d == wf[w].stepResults.deployment
            IN  /\ ~Flag(d, "fallback_used")
                /\ d.data # NoValue
                /\ Has(d.data, "success") /\ Has(d.data, "method")
                /\ d.data.method \in Range(PriorityOrder) \cup {"all-failed"}

C3_Witness ==
    \E w \in Slots :
        /\ Provisioned(w)
        /\ wf[w].github = "created"
        /\ Has(wf[w].stepResults.deployment.data, "method")
        /\ ~Flag(wf[w].stepResults.deployment, "fallback_used")

\* C4: the strategies are attempted strictly in the order 1, 2, 3, 4: what has
\* been attempted is always an initial part of that order, the next one to try
\* is the one after the last that failed, and the returned method is the last
\* strategy attempted (the first to succeed), after which none is attempted.
C4_StrategyOrder ==
    \A w \in Slots :
        (FaultTolerant /\ Started(w)) =>
            LET a == wf[w].attempts
            IN  /\ Len(a) <= Len(PriorityOrder)
                /\ a = SubSeq(PriorityOrder, 1, Len(a))
                /\ wf[w].pc = "cascade" => wf[w].strategy = Len(a) + 1
                /\ Provisioned(w) =>
                    /\ a # <<>>
                    /\ LET d == wf[w].stepResults.deployment.data
                       IN  (d # NoValue /\ Flag(d, "success")) => d.method = a[Len(a)]

C4_Witness ==
    \E w \in Slots :
        /\ Provisioned(w)
        /\ wf[w].attempts = PriorityOrder
        /\ wf[w].result.deployment.method = PriorityOrder[4]

\* C5: for a target URL that parses, whatever the search service, the store,
\* source control and hosting do, processHealthcarePractice does not raise and
\* returns a result object with a boolean success flag (the object it pushed on
\* the history).
C5_WorkflowReturnsResult ==
    \A w \in Slots :
        (Finished(w) /\ URLParses(wf[w].url)) =>
            /\ ~wf[w].raised
            /\ wf[w].result # NoValue
            /\ Has(wf[w].result, "success")
            /\ wf[w].result.success \in BOOLEAN
            /\ deploymentResults # <<>>
            /\ deploymentResults[Len(deploymentResults)] = wf[w].result

C5_Witness ==
    \E w \in Slots :
        /\ Finished(w) /\ URLParses(wf[w].url)
        /\ wf[w].search = "error" /\ wf[w].store = "failed"
        /\ (FaultTolerant => wf[w].github = "failed")
        /\ Has(wf[w].result, "success")

AllPhasesSucceeded(w) == \A p \in Phases : wf[w].stepResults[p].success
AnyFallbackUsed(w) ==
    \/ wf[w].result.fault_tolerance.fallbacks_used # {}
    \/ wf[w].result.notion.is_fallback
    \/ wf[w].result.deployment.method = "emergency-mock"

\* C7 as claimed: the status is 'complete' iff every phase has success = true
\* and no phase used a fallback, the persistence fallback record and the
\* no-dependency mock provisioning included.
C7_CompleteIffNoFallback ==
    \A w \in Slots :
        Provisioned(w) =>
            (wf[w].result.workflow_status = "complete"
                <=> (AllPhasesSucceeded(w) /\ ~AnyFallbackUsed(w)))

\* C7 as amended: the status is 'complete' iff every phase outcome has
\* success = true; then none of the orchestrator's own fallbacks was taken, but
\* a persistence fallback record or the emergency-mock provisioning, which
\* report success = true, do not stand in the way.
C7_CompleteIffAllSucceeded ==
    \A w \in Slots :
        Provisioned(w) =>
            /\ wf[w].result.workflow_status = "complete" <=> AllPhasesSucceeded(w)
            /\ wf[w].result.workflow_status = "complete" =>
                    wf[w].result.fault_tolerance.fallbacks_used = {}

C7_Witness ==
    \E w \in Slots :
        /\ Provisioned(w)
        /\ wf[w].result.workflow_status = "complete"
        /\ wf[w].result.notion.is_fallback
        /\ wf[w].result.deployment.method = "emergency-mock"

\* the number of phase outcomes of a result that have success = true
SucceededIn(analysis) == Cardinality({p \in Phases : analysis[p].success})

\* C8: workflow_status is 'failed' exactly when none of the three phase outcomes
\* has success = true, 'partial-success' exactly when some but not all have, and
\* the success flag is false exactly when the status is 'failed': in every
\* returned result, and for the status computation on every combination of the
\* three flags.
C8_StatusFromPhaseCount ==
    /\ \A w \in Slots :
        Provisioned(w) =>
            LET r == wf[w].result
                n == SucceededIn(r.step_analysis)
            IN  /\ r.workflow_status = "failed" <=> n = 0
                /\ r.workflow_status = "partial-success" <=> n \in 1..2
                /\ ~r.success <=> r.workflow_status = "failed"
    /\ \A flags \in [Phases -> BOOLEAN] :
        LET sr == [p \in Phases |-> [success |-> flags[p]]]
            n == Cardinality({p \in Phases : flags[p]})
        IN  /\ workflowStatus(sr) = "failed" <=> n = 0
            /\ workflowStatus(sr) = "partial-success" <=> n \in 1..2

C8_Witness ==
    \E w \in Slots :
        /\ Provisioned(w)
        /\ SucceededIn(wf[w].result.step_analysis) = 3
        /\ wf[w].result.success
        /\ wf[w].result.workflow_status \notin {"failed", "partial-success"}

\* the slug format of a practiceId made from company
SlugFormat(id, company) ==
    /\ Len(id) > SuffixDigits
    /\ \A i \in (Len(id) - SuffixDigits + 1)..Len(id) : id[i] \in DigitSet
    /\ id[Len(id) - SuffixDigits] = "-"
    /\ LET slug == SubSeq(id, 1, Len(id) - SuffixDigits - 1)
           alnum == LowerSet \cup DigitSet
       IN  /\ Len(slug) <= 30
           /\ \A i \in DOMAIN slug : slug[i] \in alnum \cup {"-"}
           /\ StartsWith(KeepChars(toLowerCase(company), alnum), KeepChars(slug, alnum))

\* C9: for every URL that parses and every outcome of the search,
\* scrapeHealthcarePractice returns a record with a non-empty company and a
\* practiceId of at most 30 lower-case letters, digits and hyphens taken from
\* the company name, then '-' and six digits.
C9_CompanyAndSlug ==
    \A w \in Slots :
        (Started(w) /\ URLParses(wf[w].url) /\ wf[w].scrape # "none") =>
            /\ wf[w].scrape = "returned"
            /\ wf[w].practiceData # NoValue
            /\ wf[w].practiceData.company # <<>>
            /\ SlugFormat(wf[w].practiceData.practiceId, wf[w].practiceData.company)

C9_Witness ==
    \E w \in Slots :
        /\ Started(w) /\ wf[w].scrape = "returned"
        /\ wf[w].search = "results"
        /\ Len(wf[w].practiceData.practiceId) = 30 + 1 + SuffixDigits
        /\ SlugFormat(wf[w].practiceData.practiceId, wf[w].practiceData.company)

\* C10 as claimed: the record's exa_enhanced flag is true only if the search
\* service returned real content; without a key, on a failed call or on an
\* empty answer the flag is false.
C10_EnhancedOnlyWithRealContent ==
    \A w \in Slots :
        (Started(w) /\ wf[w].scrape = "returned") =>
            (wf[w].practiceData.exa_enhanced <=> wf[w].search = "results")

\* C11 as claimed: with no search key, scrapeHealthcarePractice returns
\* services = ['Healthcare Services'], treatments = ['Consultation'] and a lead
\* score between 50 and 60 inclusive, for every URL that parses.
C11_BaselineRecordWithoutKey ==
    \A w \in Slots :
        (Started(w) /\ ~exa_api_key /\ URLParses(wf[w].url) /\ wf[w].scrape # "none") =>
            /\ wf[w].scrape = "returned"
            /\ wf[w].practiceData # NoValue
            /\ wf[w].practiceData.services = Arr(<<Lit_HealthcareServices>>)
            /\ wf[w].practiceData.treatments = Arr(<<Lit_Consultation>>)
            /\ wf[w].practiceData.lead_score \in 50..60

\* the score of the baseline record: base 50, one service (+5), one treatment
\* (+3), a location (+5) and one specialization (+5)
BaselineScore == 50 + 5 + 3 + 5 + 5

\* C11 as amended: with no search key, scrapeHealthcarePractice returns
\* services = ['Healthcare Services'], treatments = ['Consultation'] and the
\* lead score 68, for every URL that parses: the URL-derived location and the
\* default specialization count as signals too.
C11_BaselineRecordScore68 ==
    \A w \in Slots :
        (Started(w) /\ ~exa_api_key /\ URLParses(wf[w].url) /\ wf[w].scrape # "none") =>
            /\ wf[w].scrape = "returned"
            /\ wf[w].practiceData # NoValue
            /\ wf[w].practiceData.services = Arr(<<Lit_HealthcareServices>>)
            /\ wf[w].practiceData.treatments = Arr(<<Lit_Consultation>>)
            /\ wf[w].practiceData.lead_score = BaselineScore

C11_Witness ==
    \E w \in Slots :
        /\ Started(w) /\ ~exa_api_key /\ wf[w].scrape = "returned"
        /\ wf[w].url = Url_drsmith
        /\ wf[w].practiceData.lead_score = 68

\* the normalized record that storeLeadInNotion submitted to the store
Submitted(w) == validateNotionData(wf[w].practiceData, wf[w].notionT0).value

\* C18 as claimed: the practiceId assigned by scrapeHealthcarePractice is the
\* practice_id of the record persistence returns (stored or fallback), the
\* practiceId provisioning works on and the practice_id of the workflow result.
C18_PracticeIdEverywhere ==
    \A w \in Slots :
        (Stored(w) /\ wf[w].scrape = "returned" /\ wf[w].notionResult # NoValue) =>
            LET id == wf[w].practiceData.practiceId
            IN  /\ Has(wf[w].notionResult, "record")
                /\ wf[w].notionResult.record.practice_id = id
                /\ Returned(w) => wf[w].result.practice.practice_id = id

\* C19 as claimed: when the store call fails, the fallback record has the
\* company, phone, email, location, website and services of the normalized
\* record that was submitted to the store.
C19_FallbackKeepsPayload ==
    \A w \in Slots :
        (Stored(w) /\ wf[w].store = "failed" /\ wf[w].notionResult # NoValue
            /\ Flag(wf[w].notionResult, "is_fallback")) =>
            LET rec == wf[w].notionResult.record
                sub == Submitted(w)
            IN  \A f \in {"company", "phone", "email", "location", "website", "services"} :
                    rec[f] = sub[f]

\* C12: calculateLeadScore returns an integer in 0..100 for every combination
\* of signals, and the score of an exaData with one signal more (one more
\* service, treatment or specialization, a phone, an email or a location where
\* there was none, a longer content) is never lower.
C12_ScoreBoundedMonotone ==
    (probe.pc = "score" /\ probe.scored) =>
        /\ probe.score \in 0..100
        /\ probe.increased => probe.score >= probe.before

C12_Witness ==
    /\ probe.pc = "score" /\ probe.increased
    /\ probe.before = 95 /\ probe.score = 100
    /\ probe.signals.services > 5

\* C13 as claimed: validateNotionData applied to its own output gives the same
\* record as applied once, the last_updated stamp aside.
C13_NormalizeIdempotent ==
    (probe.pc = "normalize" /\ probe.applied = 2) =>
        [probe.twice EXCEPT !.last_updated = 0] = [probe.once EXCEPT !.last_updated = 0]

\* the batch call is under way or has returned
InBatch == batch.pc # "idle"
\* the workflow of target j has started and has not ended
InFlight(j) == batch.runs[j].pc \notin {"idle", "done"}
\* the window (from 0) of target j
WindowOf(j) == (j - 1) \div 3
\* the window sizes of n targets: threes, the last one what is left
WindowSizes(n) == [k \in 1..((n + 2) \div 3) |-> Min(3, n - 3 * (k - 1))]

\* C14: processBatchHealthcarePractices runs n targets in ceil(n/3) consecutive
\* windows of three (the last one possibly smaller) and returns exactly n
\* entries in the order of the input: entry i reports the URL of target i.
C14_WindowsAndOrder ==
    InBatch =>
        LET n == Len(batch.urls)
        IN  /\ Len(batch.windows) <= Len(WindowSizes(n))
            /\ batch.windows = SubSeq(WindowSizes(n), 1, Len(batch.windows))
            /\ batch.pc = "done" =>
                /\ batch.windows = WindowSizes(n)
                /\ Len(batch.results) = n
                /\ \A i \in 1..n :
                      i \in DOMAIN batch.results /\ batch.results[i].url = batch.urls[i]

C14_Witness ==
    /\ InBatch /\ batch.pc = "done"
    /\ Len(batch.urls) = 7
    /\ batch.windows = <<3, 3, 1>>
    /\ Len(batch.results) = 7

\* the workflow of a target failed: it raised, or returned success = false
Failed(L) == L.raised \/ (L.result # NoValue /\ ~L.result.success)

C16_WindowsDrain ==
    InBatch =>
        /\ \A j, k \in DOMAIN batch.runs :
              (WindowOf(j) < WindowOf(k) /\ batch.runs[k].pc # "idle") =>
                    batch.runs[j].pc = "done"
        /\ Cardinality({j \in DOMAIN batch.runs : InFlight(j)}) <= 3

C16_Witness ==
    /\ InBatch
    /\ Len(batch.urls) > 3
    /\ InFlight(4)
    /\ \A j \in 1..3 : batch.runs[j].pc = "done"

\* C20: in every workflow instance, also with other instances in flight, the
\* store call is under way or over only when enrichment has returned its
\* record, and provisioning has attempted a strategy only when persistence
\* has returned its result.
C20_PhasesInSequence ==
    InBatch =>
        \A j \in DOMAIN batch.runs :
            LET L == batch.runs[j]
            IN  L.pc # "idle" =>
                  /\ (L.pc = "notion" \/ L.store # "none") =>
                        (L.scrape = "returned" /\ L.practiceData # NoValue)
                  /\ (L.pc = "cascade" \/ L.attempts # <<>>) =>
                        (L.store # "none" /\ L.notionResult # NoValue)

C20_Witness ==
    /\ InBatch
    /\ \E j, k \in DOMAIN batch.runs :
          /\ j # k
          /\ batch.runs[j].pc = "cascade" /\ batch.runs[j].store # "none"
          /\ batch.runs[k].pc = "notion" /\ batch.runs[k].scrape = "returned"

\* C17: for any practice_id, one no workflow produced included, the recovery
\* of either phase does not raise and returns an outcome object with a boolean
\* success flag, which the handler answers with.
C17_RecoveryReturnsOutcome ==
    recovery.pc = "done" =>
        /\ ~recovery.raised
        /\ recovery.result # NoValue
        /\ Has(recovery.result, "success")
        /\ recovery.result.success \in BOOLEAN
        /\ recovery.response.status = 200
        /\ recovery.response.body.recovery_phase = recovery.retry_phase
        /\ recovery.response.body.success = recovery.result.success

C17_Witness ==
    /\ recovery.pc = "done"
    /\ recovery.practice_id = <<"x","1">>
    /\ recovery.retry_phase = "deployment"
    /\ variant = "3-step"
    /\ ~recovery.raised
    /\ ~recovery.result.success

\* C21: every started workflow eventually completes, whatever the external
\* services do (a call that is not answered is cut off by a timeout).
C21_EveryWorkflowCompletes ==
    \A w \in Slots : Started(w) ~> Finished(w)

\* C22: when strategy 1 created the repository and its hosting deployment
\* failed, strategy 1 counts as failed, strategy 2 is attempted next, the
\* repository stays as created, and the result returned comes from a later
\* strategy.
C22_PartialSuccessIsFailure ==
    \A w \in Slots :
        (FaultTolerant /\ Started(w) /\ wf[w].github = "created") =>
            /\ wf[w].attempts # <<>> /\ wf[w].attempts[1] = "full-github-railway"
            /\ wf[w].pc = "cascade" => wf[w].strategy >= 2
            /\ Returned(w) =>
                  /\ Len(wf[w].attempts) >= 2
                  /\ wf[w].attempts[2] = "existing-repo-railway"
                  /\ wf[w].result.deployment.method
                        \in {"existing-repo-railway", "direct-railway-mcp", "emergency-mock"}

C22_Witness ==
    \E w \in Slots :
        /\ FaultTolerant /\ Returned(w) /\ wf[w].github = "created"
        /\ wf[w].attempts[2] = "existing-repo-railway"
        /\ wf[w].result.deployment.method = "emergency-mock"

\* C23: during one createPersonalizedRepository call no strategy is attempted
\* twice, and an attempt that follows a failed one is always that of the next
\* strategy of the list.
C23_NoRetryWithinStrategy ==
    \A w \in Slots :
        (FaultTolerant /\ Started(w)) =>
            LET a == wf[w].attempts
            IN  /\ \A i, j \in DOMAIN a : a[i] = a[j] => i = j
                /\ \A i \in DOMAIN a :
                      i < Len(a) =>
                         \E k \in 1..(Len(deploymentStrategies) - 1) :
                            /\ deploymentStrategies[k].name = a[i]
                            /\ deploymentStrategies[k + 1].name = a[i + 1]

C23_Witness ==
    \E w \in Slots :
        /\ FaultTolerant /\ wf[w].pc = "cascade"
        /\ Len(wf[w].attempts) = 3
        /\ wf[w].strategy = 4

\* C24: createPersonalizedRepository returns method = 'all-failed' (with
\* success = false) only when the terminal strategy, emergency-mock, itself
\* raised; when only strategies 1 to 3 raised the result is never 'all-failed'.
C24_AllFailedOnlyFromTerminal ==
    (probe.pc = "cascade" \/ probe.pc = "done") =>
        /\ (probe.pc = "done" /\ probe.result # NoValue /\ probe.result.method = "all-failed") =>
              /\ ~probe.result.success
              /\ probe.attempts # <<>>
              /\ probe.attempts[Len(probe.attempts)] = "emergency-mock"
              /\ \E i \in DOMAIN probe.threw : probe.threw[i] = "emergency-mock"
        /\ (probe.pc = "done"
              /\ \A i \in DOMAIN probe.threw : probe.threw[i] # "emergency-mock") =>
              (probe.result # NoValue /\ probe.result.method # "all-failed")

C24_Witness ==
    /\ probe.pc = "done"
    /\ probe.threw = <<"full-github-railway", "existing-repo-railway", "direct-railway-mcp">>
    /\ probe.github = "created"
    /\ probe.result.method = "emergency-mock" /\ probe.result.success

\* the other case of C24: the terminal strategy raised
C24_WitnessAllFailed ==
    /\ probe.pc = "done"
    /\ probe.result.method = "all-failed"
    /\ Len(probe.threw) = 4

\* C25: when the logic of a phase raises (here enrichment: scrapeHealthcarePractice
\* threw), processHealthcarePractice does not abort: the phase gets a synthetic
\* outcome that records the failure, the later phases run, and a workflow
\* result is returned.
C25_PhaseExceptionIsolated ==
    \A w \in Slots :
        (Finished(w) /\ wf[w].scrape = "threw") =>
            /\ Returned(w)
            /\ wf[w].practiceData # NoValue
            /\ wf[w].store # "none"
            /\ FaultTolerant =>
                  /\ Flag(wf[w].stepResults.scraping, "fallback_used")
                  /\ wf[w].attempts # <<>>

\* C26: a failed store call does not interrupt the workflow and shows only as a
\* flag: the workflow returns, notion.is_fallback of its result is true exactly
\* when the store call failed, and the phase after persistence has run in both
\* cases.
C26_StoreFailureIsOnlyAFlag ==
    \A w \in Slots :
        (Finished(w) /\ wf[w].store # "none") =>
            /\ Returned(w)
            /\ wf[w].result.success
            /\ wf[w].result.notion.stored
            /\ wf[w].result.notion.is_fallback <=> (wf[w].store = "failed")
            /\ FaultTolerant =>
                  /\ wf[w].attempts # <<>>
                  /\ wf[w].stepResults.deployment.data # NoValue

C26_Witness ==
    \E w \in Slots :
        /\ FaultTolerant /\ Returned(w)
        /\ wf[w].store = "failed"
        /\ wf[w].result.notion.is_fallback
        /\ wf[w].result.deployment.method = "emergency-mock"

\* the other case of C26: the store call succeeded
C26_WitnessStored ==
    \E w \in Slots :
        /\ Returned(w) /\ wf[w].store = "ok"
        /\ ~wf[w].result.notion.is_fallback

\* C27: workflows in flight together share no written state but the history:
\* no step of a workflow changes this.currentStep while another workflow of
\* the same batch window (which wrote it when it started) is in flight.
C27_OnlyHistoryShared ==
    [][(InBatch /\ batch.pc = "window") =>
          ~ \E j, k \in DOMAIN batch.runs :
                /\ j # k
                /\ InFlight(j) /\ InFlight(k)
                /\ batch'.runs[j] # batch.runs[j]
                /\ currentStep' # currentStep]_vars

\* the workflow of target j returns in this step
ReturnsNow(j) ==
    /\ batch.runs[j].pc # "done"
    /\ batch'.runs[j].pc = "done" /\ ~batch'.runs[j].raised

\* C28: the history is append-only: a step leaves the entries it holds where
\* they are and as they are, and adds at its end exactly one entry, the result,
\* per processHealthcarePractice call that returns in the step (so its length
\* is the number of calls that have returned).
C28_HistoryAppendOnly ==
    [][/\ Len(deploymentResults') >= Len(deploymentResults)
       /\ SubSeq(deploymentResults', 1, Len(deploymentResults)) = deploymentResults
       /\ IF InBatch
          THEN /\ Len(deploymentResults') =
                     Len(deploymentResults)
                        + Cardinality({j \in DOMAIN batch.runs : ReturnsNow(j)})
               /\ \A j \in DOMAIN batch.runs :
                     ReturnsNow(j) =>
                        deploymentResults'[Len(deploymentResults')] = batch'.runs[j].result
          ELSE deploymentResults' = deploymentResults]_vars

C28_Witness ==
    /\ InBatch /\ batch.pc = "done"
    /\ FaultTolerant
    /\ Len(batch.urls) = 7
    /\ Len(deploymentResults) = 4
    /\ Cardinality({j \in DOMAIN batch.runs : batch.runs[j].raised}) = 3

\* C29: the lead record enrichment produced is read-only for the later phases:
\* no step of persistence (validateNotionData, storeLeadInNotion,
\* createFallbackNotionRecord) or of provisioning (createPersonalizedRepository)
\* changes any field of the record the workflow holds.
C29_LeadRecordReadOnly ==
    [][\A w \in Slots :
          (Started(w) /\ wf[w].practiceData # NoValue /\ wf'[w].pc # "idle") =>
              wf'[w].practiceData = wf[w].practiceData]_vars

C29_Witness ==
    \E w \in Slots :
        /\ FaultTolerant /\ Returned(w)
        /\ wf[w].store = "failed"
        /\ Len(wf[w].attempts) = 4
        /\ wf[w].practiceData = wf[w].stepResults.scraping.data
        /\ wf[w].result.practice.practice_id = wf[w].practiceData.practiceId

\* C30: any two workflow instances, also two of the same batch window whose
\* targets have the same company name, are given different practiceIds.
C30_PracticeIdsUnique ==
    InBatch =>
        \A j, k \in DOMAIN batch.runs :
            (/\ j # k
             /\ batch.runs[j].pc # "idle" /\ batch.runs[k].pc # "idle"
             /\ batch.runs[j].practiceData # NoValue
             /\ batch.runs[k].practiceData # NoValue) =>
                batch.runs[j].practiceData.practiceId # batch.runs[k].practiceData.practiceId

C32_ScoreClamped ==
    (probe.pc = "validate" /\ probe.out # NoValue /\ ~probe.out.threw) =>
        LET out == probe.out.value.lead_score
        IN  /\ out \in 0..100
            /\ Has(probe.input, "lead_score") =>
                  LET in == probe.input.lead_score
                  IN  /\ in \in 0..100 => out = in
                      /\ in < 0 => out = 0
                      /\ in > 100 => out = 100

C35_ThreeStepNeverRaises ==
    \A w \in Slots :
        (~FaultTolerant /\ Finished(w)) =>
            /\ ~wf[w].raised
            /\ wf[w].result # NoValue
            /\ deploymentResults # <<>>
            /\ deploymentResults[Len(deploymentResults)] = wf[w].result
            /\ ~URLParses(wf[w].url) =>
                  /\ ~wf[w].result.success
                  /\ wf[w].result.practice = NoValue
                  /\ currentStep = "failed"
                  /\ wf[w].store = "none"
            /\ URLParses(wf[w].url) =>
                  /\ wf[w].result.success
                  /\ wf[w].result.notion.stored
                  /\ wf[w].store \in {"ok", "failed"}
                  /\ currentStep = "complete"

C35_Witness ==
    \E w \in Slots :
        /\ ~FaultTolerant /\ Finished(w)
        /\ wf[w].url = Url_noscheme
        /\ ~wf[w].result.success
        /\ wf[w].result.practice = NoValue
        /\ currentStep = "failed"

\* the other case of C35: a URL that parses, the store call failing
C35_WitnessStoreFailed ==
    \E w \in Slots :
        /\ ~FaultTolerant /\ Finished(w)
        /\ wf[w].store = "failed"
        /\ wf[w].result.success /\ wf[w].result.notion.stored

\* C36: in the response of POST /automate with a urls array, an entry's success
\* flag is true exactly when the workflow call returned without raising,
\* whatever the success flag inside the workflow result; hence the 3-step
\* variant always reports failed = 0 and successful = number of urls, even with
\* unparsable URLs among them.
C36_EntrySuccessMeansReturned ==
    batch.pc = "responded" =>
        LET r == batch.response
        IN  /\ Len(r.batch_results) = Len(batch.urls)
            /\ \A k \in DOMAIN batch.urls :
                  /\ r.batch_results[k].url = batch.urls[k]
                  /\ r.batch_results[k].success <=> ~batch.runs[k].raised
            /\ r.successful = Cardinality({k \in DOMAIN batch.urls : ~batch.runs[k].raised})
            /\ r.failed = Cardinality({k \in DOMAIN batch.urls : batch.runs[k].raised})
            /\ ~FaultTolerant => (r.failed = 0 /\ r.successful = Len(batch.urls))

C36_Witness ==
    /\ ~FaultTolerant
    /\ batch.pc = "responded"
    /\ \E k \in DOMAIN batch.urls :
          /\ ~URLParses(batch.urls[k])
          /\ batch.response.batch_results[k].success
          /\ ~batch.response.batch_results[k].result.success
    /\ batch.response.failed = 0
    /\ batch.response.successful = LongestBatch

\* the other side of C36: a call that raised gives an entry with success false
C36_WitnessRaised ==
    /\ FaultTolerant
    /\ batch.pc = "responded"
    /\ \E k \in DOMAIN batch.urls :
          /\ batch.runs[k].raised
          /\ ~batch.response.batch_results[k].success
    /\ batch.response.failed > 0 /\ batch.response.successful > 0

\* C37: retryNotionStorage bypasses normalization and the fallback path: one
\* store call on the record synthesized from the practiceId alone, stored as it
\* is when the call succeeds; when the call fails the answer is success = false
\* with no leadId and no fallback record; deploymentResults is left alone.
C37_RetryStoreBypassesFallback ==
    (recovery.pc = "done" /\ recovery.retry_phase = "notion") =>
        /\ ~recovery.raised
        /\ recovery.fallbackData =
              retryNotionData(recovery.practice_id, recovery.fallbackData.scraped_at)
        /\ Has(recovery.result, "data")
        /\ recovery.result.success = recovery.result.data.success
        /\ recovery.result.data.success =>
              /\ Has(recovery.result.data, "leadId")
              /\ ~Flag(recovery.result.data, "is_fallback")
              /\ recovery.result.data.record = recovery.fallbackData
              /\ ~Has(recovery.result.data.record, "practice_id")
        /\ ~recovery.result.data.success =>
              /\ ~Has(recovery.result.data, "leadId")
              /\ ~Has(recovery.result.data, "record")
              /\ ~Flag(recovery.result.data, "is_fallback")
              /\ recovery.response.body.success = FALSE
        /\ deploymentResults = <<>>

C37_Witness ==
    /\ recovery.pc = "done" /\ recovery.retry_phase = "notion"
    /\ ~recovery.result.success
    /\ recovery.result.data.error = "Notion API rate limit exceeded"

\* the other case of C37: the store call succeeds on the synthesized record
C37_WitnessStored ==
    /\ recovery.pc = "done" /\ recovery.retry_phase = "notion"
    /\ recovery.result.success
    /\ Has(recovery.result.data.record, "practiceId")

\* the calls of the batch that have been started
StartedCalls == {j \in DOMAIN batch.runs : batch.runs[j].pc # "idle"}

\* every started call has returned a result
AllReturned ==
    /\ batch.pc # "idle"
    /\ StartedCalls # {}
    /\ \A j \in StartedCalls : batch.runs[j].pc = "done" /\ ~batch.runs[j].raised

\* C38: for any interleaving of concurrent fault-tolerant workflows, once every
\* started processHealthcarePractice call has returned, currentStep is
\* 'complete' or 'partial', never an intermediate phase name.
C38_StepFinalOnceAllReturned ==
    (variant = "fault-tolerant" /\ AllReturned) =>
        currentStep \in {"complete", "partial"}

\* the three concurrent calls of a window and the call of the next window have
\* all returned
C38_Witness ==
    /\ variant = "fault-tolerant" /\ AllReturned
    /\ Cardinality(StartedCalls) > concurrencyLimit
    /\ currentStep \in {"complete", "partial"}

C39_WitnessRepoCreated ==
    /\ probe.pc = "done" /\ probe.practiceData # NoValue
    /\ probe.github = "created"
    /\ Len(probe.threw) = 3
    /\ probe.result.method = "emergency-mock"

====
